---- MODULE Spec2Model ----
(***************************************************************************)
(* The downtown back office: wage computation (routes/labour_routes.py,    *)
(* routes/prices_routes.py, routes/staffs_routes.py), the invoice router   *)
(* (routes/invoice_routes.py) and the statistics of routes/stats_routes.py *)
(* over their MongoDB collections.                                         *)
(*                                                                         *)
(* Numbers: Python floats are modelled as exact rationals [n, d] in lowest *)
(* terms, so every equation below is an equation of exact arithmetic.      *)
(* Strings are TLA+ strings; lower(), strip(), `in` and the lexicographic  *)
(* comparison of MongoDB are computed character by character.              *)
(***************************************************************************)
EXTENDS Integers, Sequences, FiniteSets, TLC

VARIABLES
    price_settings_collection,  \* db.price_settings_collection: sequence of documents
    labour_records_collection,  \* db.downtown_labour_records: documents in insertion order
    staff_collection,           \* db.downtown_staffs: documents in insertion order
    next_labour_oid,            \* number of ObjectIds handed out to labour records
    next_staff_oid,             \* number of ObjectIds handed out to staff documents
    priced_with,                \* history: labour record _id -> labour_prices read at line 118
    invoices_collection,        \* db.downtown_invoices: documents in insertion order
    next_invoice_oid,           \* number of ObjectIds handed out to invoices
    sales_collection,           \* db.downtown_sales
    expenses_collection,        \* db.downtown_expenses
    purchases_collection,       \* db.downtown_purchases
    customers_collection,       \* db.downtown_customers
    upserts,                    \* update_one calls of /putprices that matched no document
                                \* and have not inserted theirs yet
    creating,                   \* create_staff requests between generate_unique_staff_id
                                \* and insert_one
    request,                    \* the headers of the request the application is serving
    resp                        \* the response of the last request

vars == <<price_settings_collection, labour_records_collection, staff_collection,
          next_labour_oid, next_staff_oid, priced_with, invoices_collection,
          next_invoice_oid, sales_collection, expenses_collection, purchases_collection,
          customers_collection, upserts, creating, request, resp>>

\* The variables the handlers of the wage routes never write
office_vars == <<invoices_collection, next_invoice_oid, sales_collection,
                 expenses_collection, purchases_collection, customers_collection, upserts,
                 creating, request>>

\* The variables the handlers of the invoice and statistics routes never write
wage_vars == <<price_settings_collection, labour_records_collection, staff_collection,
               next_labour_oid, next_staff_oid, priced_with, creating, request>>

-----------------------------------------------------------------------------
(* Bounds of the model *)

MaxRecords == 2     \* labour records ever inserted

MaxStaff == 2       \* staff documents ever inserted

MaxInFlight == 2    \* requests of one route that are between two of their awaits

-----------------------------------------------------------------------------
(* Sequences and dictionaries *)

Range(s) == {s[i] : i \in DOMAIN s}

RemoveAt(s, i) == SubSeq(s, 1, i - 1) \o SubSeq(s, i + 1, Len(s))

EmptyDict == [k \in {} |-> 0]

DictGet(dict, k, default) == IF k \in DOMAIN dict THEN dict[k] ELSE default

DictPut(dict, k, v) == [x \in (DOMAIN dict) \cup {k} |-> IF x = k THEN v ELSE dict[x]]

-----------------------------------------------------------------------------
(* Exact arithmetic *)

Abs(x) == IF x < 0 THEN -x ELSE x

RECURSIVE GCD(_, _)
GCD(a, b) == IF b = 0 THEN a ELSE GCD(b, a % b)

\* The outcome of a division by zero (Python raises ZeroDivisionError): the
\* only value with denominator 0.
ZeroDivisionError == [n |-> 0, d |-> 0]

Norm(n, d) ==
    LET g == GCD(Abs(n), Abs(d))
        s == IF d < 0 THEN -1 ELSE 1
    IN  [n |-> s * (n \div g), d |-> s * (d \div g)]

Num(i) == [n |-> i, d |-> 1]

Zero == Num(0)

RAdd(a, b) ==
    IF a = ZeroDivisionError \/ b = ZeroDivisionError THEN ZeroDivisionError
    ELSE Norm(a.n * b.d + b.n * a.d, a.d * b.d)

RMul(a, b) ==
    IF a = ZeroDivisionError \/ b = ZeroDivisionError THEN ZeroDivisionError
    ELSE Norm(a.n * b.n, a.d * b.d)

\* a / k for an integer count k
RDiv(a, k) ==
    IF a = ZeroDivisionError \/ k = 0 THEN ZeroDivisionError
    ELSE Norm(a.n, a.d * k)

-----------------------------------------------------------------------------
(* Strings *)

UpperCase == {"A", "B", "C", "D", "E", "F", "G", "H", "I", "J", "K", "L", "M",
              "N", "O", "P", "Q", "R", "S", "T", "U", "V", "W", "X", "Y", "Z"}

LowerOf ==
    [c \in UpperCase |->
        CASE c = "A" -> "a" [] c = "B" -> "b" [] c = "C" -> "c" [] c = "D" -> "d"
          [] c = "E" -> "e" [] c = "F" -> "f" [] c = "G" -> "g" [] c = "H" -> "h"
          [] c = "I" -> "i" [] c = "J" -> "j" [] c = "K" -> "k" [] c = "L" -> "l"
          [] c = "M" -> "m" [] c = "N" -> "n" [] c = "O" -> "o" [] c = "P" -> "p"
          [] c = "Q" -> "q" [] c = "R" -> "r" [] c = "S" -> "s" [] c = "T" -> "t"
          [] c = "U" -> "u" [] c = "V" -> "v" [] c = "W" -> "w" [] c = "X" -> "x"
          [] c = "Y" -> "y" [] c = "Z" -> "z"]

CharAt(s, i) == SubSeq(s, i, i)

\* str.lower()
RECURSIVE Lower(_)
Lower(s) ==
    IF Len(s) = 0 THEN ""
    ELSE LET c == CharAt(s, 1)
         IN  (IF c \in UpperCase THEN LowerOf[c] ELSE c) \o Lower(SubSeq(s, 2, Len(s)))

\* str.strip(): leading and trailing blanks removed
RECURSIVE Strip(_)
Strip(s) ==
    IF Len(s) = 0 THEN s
    ELSE IF CharAt(s, 1) = " " THEN Strip(SubSeq(s, 2, Len(s)))
    ELSE IF CharAt(s, Len(s)) = " " THEN Strip(SubSeq(s, 1, Len(s) - 1))
    ELSE s

\* `k in s`
Contains(s, k) ==
    \E i \in 1..(Len(s) - Len(k) + 1) : SubSeq(s, i, i + Len(k) - 1) = k

\* Code points of the characters of a date string and of the process codes
CharCode(c) ==
    CASE c = "B" -> 66 [] c = "C" -> 67 [] c = "R" -> 82
      [] c = "-" -> 45 [] c = "0" -> 48 [] c = "1" -> 49 [] c = "2" -> 50
      [] c = "3" -> 51 [] c = "4" -> 52 [] c = "5" -> 53 [] c = "6" -> 54
      [] c = "7" -> 55 [] c = "8" -> 56 [] c = "9" -> 57

\* a <= b in the binary string order MongoDB compares with
RECURSIVE StrLeq(_, _)
StrLeq(a, b) ==
    IF Len(a) = 0 THEN TRUE
    ELSE IF Len(b) = 0 THEN FALSE
    ELSE IF CharAt(a, 1) = CharAt(b, 1)
         THEN StrLeq(SubSeq(a, 2, Len(a)), SubSeq(b, 2, Len(b)))
    ELSE CharCode(CharAt(a, 1)) < CharCode(CharAt(b, 1))

Digit(i) == CASE i = 0 -> "0" [] i = 1 -> "1" [] i = 2 -> "2" [] i = 3 -> "3"
              [] i = 4 -> "4" [] i = 5 -> "5" [] i = 6 -> "6" [] i = 7 -> "7"
              [] i = 8 -> "8" [] i = 9 -> "9"

Pad2(i) == Digit((i \div 10) % 10) \o Digit(i % 10)

Pad4(i) == Pad2(i \div 100) \o Pad2(i % 100)

\* datetime(y, m, d).strftime("%Y-%m-%d")
Strftime(y, m, d) == Pad4(y) \o "-" \o Pad2(m) \o "-" \o Pad2(d)

IsLeap(y) == (y % 4 = 0 /\ y % 100 # 0) \/ y % 400 = 0

\* calendar.monthrange(y, m)[1]
MonthRange(y, m) ==
    IF m = 2 THEN (IF IsLeap(y) THEN 29 ELSE 28)
    ELSE IF m \in {4, 6, 9, 11} THEN 30 ELSE 31

-----------------------------------------------------------------------------
(* Documents and request bodies *)

\* A key the document does not have (dict.get returns None).
Absent == "<absent>"

\* `not v` is false: the value is neither None nor the empty string
Truthy(v) == v # Absent /\ v # ""

\* PriceSettingsSerializer values sent to /putprices
PriceSettings ==
    { [company_prices |-> [recyclingKg |-> Num(30), blendingKg |-> Num(20), crushingKg |-> Num(10)],
       labour_prices  |-> [recycling |-> Num(100), blending |-> Num(50),
                           crushingWaste |-> Num(20), crushingSack |-> Num(10)]],
      [company_prices |-> [recyclingKg |-> Num(30), blendingKg |-> Num(20), crushingKg |-> Num(10)],
       labour_prices  |-> [recycling |-> Num(9), blending |-> Num(7),
                           crushingWaste |-> Num(5), crushingSack |-> Num(3)]] }

\* str(ObjectId) of the n-th document inserted in a collection
LabourOid(n) == "l" \o Digit(n)
StaffOid(n) == "s" \o Digit(n)

\* StaffSerializer values embedded in a labour request (exclude_unset dump):
\* two that carry the id of a staff document and one without an id.
StaffA == [id |-> "s1", oid |-> Absent, name |-> "Ann"]
StaffB == [id |-> "s2", oid |-> Absent, name |-> "Bob"]
StaffN == [id |-> Absent, oid |-> Absent, name |-> "Cy"]

\* LabourRecordSerializer values sent to /create-labours; fields_set names the
\* optional fields the client set (amount and memberShare default to 0.0).
LabourBody(staffs, kg, date, labourType, fields_set, amount, memberShare) ==
    [staffs |-> staffs, kg |-> kg, date |-> date, time |-> "morning",
     labourType |-> labourType, fields_set |-> fields_set,
     amount |-> amount, memberShare |-> memberShare]

\* Values of amount and memberShare a client sends
SentAmount == Num(5)
SentShare == Num(3)

\* Requests of the whole service: staff with and without an id, dated in and
\* out of November 2026, priced by the service and by the client
LabourBodies ==
    { LabourBody(<<StaffA, StaffN>>, Num(7), "2026-02-28", "labour recycling", {}, Zero, Zero),
      LabourBody(<<>>, Num(10), "2026-11-30", "Labour Blending", {}, Zero, Zero),
      LabourBody(<<>>, Num(10), "2026-11-01", "labour crushing sack",
                 {"amount", "memberShare"}, SentAmount, SentShare) }

\* Requests of the pricing specification: every combination of a labour type,
\* a staff list, a weight and a choice of optional fields
AllocLabels ==
    { "labour recycling", " Labour Blending ", "labour crushing waste", "LABOUR CRUSHING SACK",
      "labour crushing", "recycling blending", "crushing waste recycling",
      "blending crushing waste", "crushing sack blending" }

AllocStaffs == { <<>>, <<StaffA>>, <<StaffA, StaffB>>, <<StaffB, StaffN>>, <<StaffA, StaffB, StaffA>> }

AllocKgs == { Num(10), [n |-> 7, d |-> 2] }

AllocFields == { {}, {"amount"}, {"amount", "memberShare"} }

AllocBodies ==
    { LabourBody(staffs, kg, "2026-11-03", labourType, fields_set, SentAmount, SentShare) :
        staffs \in AllocStaffs, kg \in AllocKgs, labourType \in AllocLabels,
        fields_set \in AllocFields }

\* StaffSerializer values sent to /create-staff
StaffBodies == { [name |-> "Ann", phone |-> "0800", dateAdded |-> "2026-01-05"] }

\* Attempts of generate_unique_staff_id
max_attempts == 5

\* Sequences of values random.randint(100000, 999999) draws in one request
StaffIdDraws ==
    { [i \in 1..max_attempts |-> 100000],
      [i \in 1..max_attempts |-> IF i < max_attempts THEN 100000 ELSE 999999],
      [i \in 1..max_attempts |-> IF i < max_attempts THEN 999999 ELSE 555555] }

\* (year, month) of datetime.now() when a request is served
Nows == {<<2026, 11>>, <<2026, 2>>}

NoBody == "<none>"

\* Headers of a request that carries no X-API-KEY
NoHeaders == [X_API_KEY |-> Absent]

Response(op, status, body) == [op |-> op, status |-> status, body |-> body]

-----------------------------------------------------------------------------
(* routes/labour_routes.py: create_labour_record *)

\* PricePerKg with the keywords tried in the order of get_wages
PricePerKg_WagesOrder(labour_prices, labourType) ==
    LET labour_type_str == Lower(labourType)
    IN  IF Contains(labour_type_str, "recycling") THEN labour_prices.recycling
        ELSE IF Contains(labour_type_str, "crushing waste") THEN labour_prices.crushingWaste
        ELSE IF Contains(labour_type_str, "crushing sack") THEN labour_prices.crushingSack
        ELSE IF Contains(labour_type_str, "blending") THEN labour_prices.blending
        ELSE Zero

\* Lines 121-130: the price per kg of a labour type
PricePerKg(labour_prices, labourType) ==
    LET labour_type_str == Lower(labourType)
    IN  IF Contains(labour_type_str, "recycling") THEN labour_prices.recycling
        ELSE IF Contains(labour_type_str, "blending") THEN labour_prices.blending
        ELSE IF Contains(labour_type_str, "crushing waste") THEN labour_prices.crushingWaste
        ELSE IF Contains(labour_type_str, "crushing sack") THEN labour_prices.crushingSack
        ELSE Zero

\* MemberShare without the division
MemberShare_Undivided(amount, num_staff) ==
    IF num_staff > 0 THEN amount ELSE Zero

\* MemberShare with the integer division amount // num_staff
MemberShare_Floor(amount, num_staff) ==
    IF num_staff > 0 THEN Num(amount.n \div (amount.d * num_staff)) ELSE Zero

\* Line 138: the share of each of num_staff members
MemberShare(amount, num_staff) ==
    IF num_staff > 0 THEN RDiv(amount, num_staff) ELSE Zero

\* Lines 120-141: amount and memberShare computed from the prices
Allocate(record, labour_prices) ==
    LET pricePerKg == PricePerKg(labour_prices, record.labourType)
        amount == RMul(pricePerKg, record.kg)
    IN  [amount |-> amount, memberShare |-> MemberShare(amount, Len(record.staffs))]

\* Line 114 with `and` for `or`: pricing only when both fields are missing
NeedsPricing_Both(record) ==
    "amount" \notin record.fields_set /\ "memberShare" \notin record.fields_set

\* Line 114: the dump lacks amount or memberShare
NeedsPricing(record) ==
    "amount" \notin record.fields_set \/ "memberShare" \notin record.fields_set

\* The document insert_one stores
LabourDoc(oid, record, amount, memberShare) ==
    [oid |-> oid, staffs |-> record.staffs, kg |-> record.kg, date |-> record.date,
     time |-> record.time, labourType |-> record.labourType,
     amount |-> amount, memberShare |-> memberShare]

create_labour_record(record) ==
    /\ next_labour_oid < MaxRecords
    /\ UNCHANGED office_vars
    /\ UNCHANGED <<price_settings_collection, staff_collection, next_staff_oid>>
    /\ IF NeedsPricing(record) /\ price_settings_collection = <<>>
       THEN /\ resp' = Response("create_labour_record", 404, NoBody)
            /\ UNCHANGED <<labour_records_collection, next_labour_oid, priced_with>>
       ELSE LET oid == LabourOid(next_labour_oid + 1)
                labour_prices == price_settings_collection[1].labour_prices
                computed == Allocate(record, labour_prices)
                doc == IF NeedsPricing(record)
                       THEN LabourDoc(oid, record, computed.amount, computed.memberShare)
                       ELSE LabourDoc(oid, record, record.amount, record.memberShare)
            IN  IF NeedsPricing(record) /\ computed.memberShare = ZeroDivisionError
                THEN /\ resp' = Response("create_labour_record", 500, NoBody)
                     /\ UNCHANGED <<labour_records_collection, next_labour_oid, priced_with>>
                ELSE /\ labour_records_collection' = Append(labour_records_collection, doc)
                     /\ next_labour_oid' = next_labour_oid + 1
                     /\ priced_with' = IF NeedsPricing(record)
                                       THEN DictPut(priced_with, oid, <<labour_prices>>)
                                       ELSE DictPut(priced_with, oid, <<>>)
                     /\ resp' = Response("create_labour_record", 200, doc)

\* ObjectId(labour_id) parses
IsObjectId(labour_id) == Len(labour_id) = 2

delete_labour_record(labour_id) ==
    /\ UNCHANGED office_vars
    /\ UNCHANGED <<price_settings_collection, staff_collection, next_labour_oid,
                   next_staff_oid>>
    /\ IF ~IsObjectId(labour_id)
       THEN /\ resp' = Response("delete_labour_record", 400, NoBody)
            /\ UNCHANGED <<labour_records_collection, priced_with>>
       ELSE LET hits == {i \in DOMAIN labour_records_collection :
                            labour_records_collection[i].oid = labour_id}
            IN  IF hits = {}
                THEN /\ resp' = Response("delete_labour_record", 404, NoBody)
                     /\ UNCHANGED <<labour_records_collection, priced_with>>
                ELSE /\ labour_records_collection' =
                            RemoveAt(labour_records_collection, CHOOSE i \in hits : TRUE)
                     /\ priced_with' = [o \in DOMAIN priced_with \ {labour_id} |->
                                           priced_with[o]]
                     /\ resp' = Response("delete_labour_record", 200, NoBody)

-----------------------------------------------------------------------------
(* routes/prices_routes.py: update_price_settings *)

update_price_settings(settings) ==
    /\ UNCHANGED office_vars
    /\ UNCHANGED <<labour_records_collection, staff_collection, next_labour_oid,
                   next_staff_oid, priced_with>>
    /\ IF price_settings_collection = <<>>
       THEN \* upsert: the document is inserted, result.upserted_id is set
            /\ price_settings_collection' = <<settings>>
            /\ resp' = Response("update_price_settings", 200, settings)
       ELSE \* $set on the first document; modified_count is 0 when nothing changes
            LET modified_count == IF price_settings_collection[1] = settings THEN 0 ELSE 1
            IN  /\ price_settings_collection' =
                       <<settings>> \o SubSeq(price_settings_collection, 2,
                                               Len(price_settings_collection))
                /\ resp' = IF modified_count = 0
                           THEN Response("update_price_settings", 500, NoBody)
                           ELSE Response("update_price_settings", 200, settings)

-----------------------------------------------------------------------------
(* routes/labour_routes.py: get_wages *)

\* Lines 286, 189, 205: staff.get("id") or staff.get("_id")
StaffKey(staff) == IF Truthy(staff.id) THEN staff.id ELSE staff.oid

\* Lines 264-278: the labour price and the output field of a labour type
WagesPrice(labour_prices, labourType) ==
    LET labour_type_str == Lower(Strip(labourType))
    IN  IF Contains(labour_type_str, "recycling")
        THEN [labour_price |-> labour_prices.recycling, labour_field |-> "amountRecycling"]
        ELSE IF Contains(labour_type_str, "crushing waste")
        THEN [labour_price |-> labour_prices.crushingWaste, labour_field |-> "amountCrushingWaste"]
        ELSE IF Contains(labour_type_str, "crushing sack")
        THEN [labour_price |-> labour_prices.crushingSack, labour_field |-> "amountCrushingSack"]
        ELSE IF Contains(labour_type_str, "blending")
        THEN [labour_price |-> labour_prices.blending, labour_field |-> "amountBlending"]
        ELSE [labour_price |-> Zero, labour_field |-> Absent]

\* Lines 291-299: the entry a staff id starts with
NewSummary(staff_id, name) ==
    [id |-> staff_id, name |-> name, totalKg |-> Zero,
     amountRecycling |-> Zero, amountBlending |-> Zero,
     amountCrushingWaste |-> Zero, amountCrushingSack |-> Zero]

\* Position of a key in an insertion-ordered dict (0 when missing)
IndexOf(entries, staff_id) ==
    IF \E i \in DOMAIN entries : entries[i].id = staff_id
    THEN CHOOSE i \in DOMAIN entries : entries[i].id = staff_id
    ELSE 0

\* Lines 301-304: the accumulation into one entry
Accumulate(entry, kg_per_staff, amount, labour_field) ==
    LET e == [entry EXCEPT !.totalKg = RAdd(@, kg_per_staff)]
    IN  IF labour_field = Absent THEN e
        ELSE [e EXCEPT ![labour_field] = RAdd(@, amount)]

\* Lines 284-304: the loop over the staff of one record, from position i
RECURSIVE WagesStaffLoop(_, _, _, _, _, _)
WagesStaffLoop(staff_summary, staffs, i, kg_per_staff, amount, labour_field) ==
    IF i > Len(staffs) THEN staff_summary
    ELSE LET staff == staffs[i]
             staff_id == StaffKey(staff)
             known == IndexOf(staff_summary, staff_id)
             summary == IF known = 0
                        THEN Append(staff_summary, NewSummary(staff_id, staff.name))
                        ELSE staff_summary
             at == IF known = 0 THEN Len(summary) ELSE known
         IN  IF ~Truthy(staff_id)
             THEN WagesStaffLoop(staff_summary, staffs, i + 1, kg_per_staff, amount, labour_field)
             ELSE WagesStaffLoop(
                      [summary EXCEPT ![at] = Accumulate(@, kg_per_staff, amount, labour_field)],
                      staffs, i + 1, kg_per_staff, amount, labour_field)

\* KgPerStaff without the division
KgPerStaff_Whole(kg, num_staff) == kg

\* Line 258: kg / num_staff
KgPerStaff(kg, num_staff) == RDiv(kg, num_staff)

\* SkipRecord without the test of line 254
SkipRecord_Never(num_staff) == FALSE

\* Lines 254-255: a record without staff is skipped
SkipRecord(num_staff) == num_staff = 0

\* Lines 250-304: the loop over the labour records, from position i; the result
\* is the aggregator, or <<ZeroDivisionError>> when a division raised
RECURSIVE WagesLoop(_, _, _, _)
WagesLoop(staff_summary, records, i, labour_prices) ==
    IF i > Len(records) THEN staff_summary
    ELSE LET record == records[i]
             num_staff == Len(record.staffs)
             kg_per_staff == KgPerStaff(record.kg, num_staff)
             price == WagesPrice(labour_prices, record.labourType)
             amount == RMul(kg_per_staff, price.labour_price)
         IN  IF SkipRecord(num_staff)
             THEN WagesLoop(staff_summary, records, i + 1, labour_prices)
             ELSE IF kg_per_staff = ZeroDivisionError THEN <<ZeroDivisionError>>
             ELSE WagesLoop(
                      WagesStaffLoop(staff_summary, record.staffs, 1, kg_per_staff,
                                     amount, price.labour_field),
                      records, i + 1, labour_prices)

\* TotalAmountDue without its first term
TotalAmountDue_NoRecycling(s) ==
    RAdd(RAdd(s.amountBlending, s.amountCrushingWaste), s.amountCrushingSack)

\* Lines 309-314
TotalAmountDue(s) ==
    RAdd(RAdd(RAdd(s.amountRecycling, s.amountBlending), s.amountCrushingWaste),
         s.amountCrushingSack)

\* Lines 306-317: the list returned
WagesResult(staff_summary) ==
    [i \in DOMAIN staff_summary |->
        [id |-> staff_summary[i].id, name |-> staff_summary[i].name,
         totalKg |-> staff_summary[i].totalKg,
         amountRecycling |-> staff_summary[i].amountRecycling,
         amountBlending |-> staff_summary[i].amountBlending,
         amountCrushingWaste |-> staff_summary[i].amountCrushingWaste,
         amountCrushingSack |-> staff_summary[i].amountCrushingSack,
         totalAmountDue |-> TotalAmountDue(staff_summary[i])]]

\* Lines 246-317: the wages of a collection of records under a price table
Wages(records, labour_prices) ==
    LET staff_summary == WagesLoop(<<>>, records, 1, labour_prices)
    IN  IF staff_summary = <<ZeroDivisionError>> THEN staff_summary
        ELSE WagesResult(staff_summary)

\* get_wages without the 404 of lines 241-242: no price document, no prices
get_wages_WithoutPriceCheck ==
    /\ UNCHANGED office_vars
    /\ UNCHANGED <<price_settings_collection, labour_records_collection, staff_collection,
                   next_labour_oid, next_staff_oid, priced_with>>
    /\ LET labour_prices ==
               IF price_settings_collection = <<>>
               THEN [recycling |-> Zero, blending |-> Zero, crushingWaste |-> Zero,
                     crushingSack |-> Zero]
               ELSE price_settings_collection[1].labour_prices
           result == Wages(labour_records_collection, labour_prices)
       IN  IF result = <<ZeroDivisionError>>
           THEN resp' = Response("get_wages", 500, NoBody)
           ELSE resp' = Response("get_wages", 200, result)

get_wages ==
    /\ UNCHANGED office_vars
    /\ UNCHANGED <<price_settings_collection, labour_records_collection, staff_collection,
                   next_labour_oid, next_staff_oid, priced_with>>
    /\ IF price_settings_collection = <<>>
       THEN resp' = Response("get_wages", 404, NoBody)
       ELSE LET result == Wages(labour_records_collection,
                                price_settings_collection[1].labour_prices)
            IN  IF result = <<ZeroDivisionError>>
                THEN resp' = Response("get_wages", 500, NoBody)
                ELSE resp' = Response("get_wages", 200, result)

-----------------------------------------------------------------------------
(* routes/labour_routes.py: get_monthly_wages *)

\* Lines 172-181: the records dated in the month of now
InWindow(date, now) ==
    LET first_day_str == Strftime(now[1], now[2], 1)
        last_day_str == Strftime(now[1], now[2], MonthRange(now[1], now[2]))
    IN  StrLeq(first_day_str, date) /\ StrLeq(date, last_day_str)

RECURSIVE SelectWindow(_, _)
SelectWindow(records, now) ==
    IF records = <<>> THEN <<>>
    ELSE (IF InWindow(Head(records).date, now) THEN <<Head(records)>> ELSE <<>>)
         \o SelectWindow(Tail(records), now)

\* StoredShare recomputed from the prices in force
StoredShare_Recomputed(record) ==
    IF price_settings_collection = <<>> THEN record.memberShare
    ELSE Allocate(record, price_settings_collection[1].labour_prices).memberShare

\* Line 186: record.get("memberShare", 0)
StoredShare(record) == record.memberShare

\* Line 187: the breakdown key of a record
BreakdownKey(record) == Lower(Strip(record.labourType))

\* AccumulateWage that stores the last share of a labour type, not the sum
AccumulateWage_Overwrite(entry, member_share, labour_type) ==
    [entry EXCEPT !.totalWage = RAdd(@, member_share),
                  !.breakdown = DictPut(@, labour_type, member_share)]

\* Lines 195-197: the accumulation into one entry
AccumulateWage(entry, member_share, labour_type) ==
    [entry EXCEPT !.totalWage = RAdd(@, member_share),
                  !.breakdown = DictPut(@, labour_type,
                                        RAdd(DictGet(@, labour_type, Zero), member_share))]

\* Lines 188-197: the loop over the staff of one record, from position i
RECURSIVE MonthlyStaffLoop(_, _, _, _, _)
MonthlyStaffLoop(staff_wages, staffs, i, member_share, labour_type) ==
    IF i > Len(staffs) THEN staff_wages
    ELSE LET staff_id == StaffKey(staffs[i])
             known == IndexOf(staff_wages, staff_id)
             wages == IF known = 0
                      THEN Append(staff_wages, [id |-> staff_id, totalWage |-> Zero,
                                                breakdown |-> EmptyDict])
                      ELSE staff_wages
             at == IF known = 0 THEN Len(wages) ELSE known
         IN  IF ~Truthy(staff_id)
             THEN MonthlyStaffLoop(staff_wages, staffs, i + 1, member_share, labour_type)
             ELSE MonthlyStaffLoop(
                      [wages EXCEPT ![at] = AccumulateWage(@, member_share, labour_type)],
                      staffs, i + 1, member_share, labour_type)

\* Lines 184-197: the loop over the records of the window, from position i
RECURSIVE MonthlyLoop(_, _, _)
MonthlyLoop(staff_wages, records, i) ==
    IF i > Len(records) THEN staff_wages
    ELSE MonthlyLoop(
             MonthlyStaffLoop(staff_wages, records[i].staffs, 1,
                              StoredShare(records[i]), BreakdownKey(records[i])),
             records, i + 1)

\* MergeRoster that leaves out the staff documents without a wage
RECURSIVE MergeRoster_OnlyPaid(_, _)
MergeRoster_OnlyPaid(staff_docs, staff_wages) ==
    IF staff_docs = <<>> THEN <<>>
    ELSE LET staff == Head(staff_docs)
             staff_id == StaffKey(staff)
             known == IndexOf(staff_wages, staff_id)
         IN  (IF ~Truthy(staff_id) \/ known = 0 THEN <<>>
              ELSE <<[id |-> staff_id, name |-> staff.name,
                      totalWage |-> staff_wages[known].totalWage,
                      breakdown |-> staff_wages[known].breakdown]>>)
             \o MergeRoster_OnlyPaid(Tail(staff_docs), staff_wages)

\* MergeRoster that also lists the ids of staff_wages no staff document has
RECURSIVE MergeRoster_AllPaid(_, _)
MergeRoster_AllPaid(staff_docs, staff_wages) ==
    IF staff_docs = <<>>
    THEN [i \in DOMAIN staff_wages |->
             [id |-> staff_wages[i].id, name |-> "",
              totalWage |-> staff_wages[i].totalWage,
              breakdown |-> staff_wages[i].breakdown]]
    ELSE LET staff == Head(staff_docs)
             staff_id == StaffKey(staff)
             known == IndexOf(staff_wages, staff_id)
             wage_data == IF known = 0
                          THEN [totalWage |-> Zero, breakdown |-> EmptyDict]
                          ELSE staff_wages[known]
         IN  (IF ~Truthy(staff_id) THEN <<>>
              ELSE <<[id |-> staff_id, name |-> staff.name,
                      totalWage |-> wage_data.totalWage,
                      breakdown |-> wage_data.breakdown]>>)
             \o MergeRoster_AllPaid(Tail(staff_docs),
                                    IF known = 0 THEN staff_wages
                                    ELSE RemoveAt(staff_wages, known))

\* Lines 203-215: one entry for every staff document that has a key
RECURSIVE MergeRoster(_, _)
MergeRoster(staff_docs, staff_wages) ==
    IF staff_docs = <<>> THEN <<>>
    ELSE LET staff == Head(staff_docs)
             staff_id == StaffKey(staff)
             known == IndexOf(staff_wages, staff_id)
             wage_data == IF known = 0
                          THEN [totalWage |-> Zero, breakdown |-> EmptyDict]
                          ELSE staff_wages[known]
         IN  (IF ~Truthy(staff_id) THEN <<>>
              ELSE <<[id |-> staff_id, name |-> staff.name,
                      totalWage |-> wage_data.totalWage,
                      breakdown |-> wage_data.breakdown]>>)
             \o MergeRoster(Tail(staff_docs), staff_wages)

\* Lines 172-217: the monthly wages of the records and the roster at time now
MonthlyWages(records, staff_docs, now) ==
    MergeRoster(staff_docs, MonthlyLoop(<<>>, SelectWindow(records, now), 1))

get_monthly_wages(now) ==
    /\ UNCHANGED office_vars
    /\ UNCHANGED <<price_settings_collection, labour_records_collection, staff_collection,
                   next_labour_oid, next_staff_oid, priced_with>>
    /\ resp' = Response("get_monthly_wages", 200,
                        [now |-> now,
                         result |-> MonthlyWages(labour_records_collection,
                                                 staff_collection, now)])

-----------------------------------------------------------------------------
(* routes/staffs_routes.py *)

\* Lines 36-41: the first draw no staff document has, or 0 when every draw is taken
RECURSIVE generate_unique_staff_id(_, _)
generate_unique_staff_id(draws, i) ==
    IF i > max_attempts THEN 0
    ELSE IF \E j \in DOMAIN staff_collection : staff_collection[j].staff_id = draws[i]
         THEN generate_unique_staff_id(draws, i + 1)
         ELSE draws[i]

create_staff(staff, draws) ==
    /\ next_staff_oid < MaxStaff
    /\ UNCHANGED office_vars
    /\ UNCHANGED <<price_settings_collection, labour_records_collection,
                   next_labour_oid, priced_with>>
    /\ LET new_staff_id == generate_unique_staff_id(draws, 1)
           doc == [id |-> Absent, oid |-> StaffOid(next_staff_oid + 1),
                   staff_id |-> new_staff_id, name |-> staff.name,
                   phone |-> staff.phone, dateAdded |-> staff.dateAdded]
       IN  IF new_staff_id = 0
           THEN /\ resp' = Response("create_staff", 500, NoBody)
                /\ UNCHANGED <<staff_collection, next_staff_oid>>
           ELSE /\ staff_collection' = Append(staff_collection, doc)
                /\ next_staff_oid' = next_staff_oid + 1
                /\ resp' = Response("create_staff", 200, doc)

\* Lines 58-68 up to the await of insert_one: the request has its staff_id from
\* generate_unique_staff_id and has not stored its document yet. The collection
\* has no unique index on staff_id, so nothing orders this request with the
\* other requests that hold an id.
create_staff_generate(staff, draws) ==
    /\ next_staff_oid + Len(creating) < MaxStaff
    /\ Len(creating) < MaxInFlight
    /\ UNCHANGED <<invoices_collection, next_invoice_oid, sales_collection,
                   expenses_collection, purchases_collection, customers_collection,
                   upserts, request>>
    /\ UNCHANGED <<price_settings_collection, labour_records_collection, staff_collection,
                   next_labour_oid, next_staff_oid, priced_with>>
    /\ LET new_staff_id == generate_unique_staff_id(draws, 1)
       IN  IF new_staff_id = 0
           THEN /\ resp' = Response("create_staff", 500, NoBody)
                /\ creating' = creating
           ELSE /\ creating' = Append(creating, [staff |-> staff, staff_id |-> new_staff_id])
                /\ resp' = resp

\* Lines 69-72: insert_one of a request that holds its staff_id, and the answer
create_staff_insert(i) ==
    /\ i \in DOMAIN creating
    /\ UNCHANGED <<invoices_collection, next_invoice_oid, sales_collection,
                   expenses_collection, purchases_collection, customers_collection,
                   upserts, request>>
    /\ UNCHANGED <<price_settings_collection, labour_records_collection,
                   next_labour_oid, priced_with>>
    /\ LET doc == [id |-> Absent, oid |-> StaffOid(next_staff_oid + 1),
                   staff_id |-> creating[i].staff_id, name |-> creating[i].staff.name,
                   phone |-> creating[i].staff.phone,
                   dateAdded |-> creating[i].staff.dateAdded]
       IN  /\ staff_collection' = Append(staff_collection, doc)
           /\ next_staff_oid' = next_staff_oid + 1
           /\ creating' = RemoveAt(creating, i)
           /\ resp' = Response("create_staff", 200, doc)

-----------------------------------------------------------------------------
(* routes/staffs_routes.py: update_staff, delete_staff *)

\* UpdateStaffSerializer values sent to /update/{staff_id}: a new name, and a
\* body without fields
UpdateStaffBodies ==
    { [fields_set |-> {"name"}, name |-> "Anne", phone |-> ""],
      [fields_set |-> {}, name |-> "", phone |-> ""] }

\* Line 81: model_dump(exclude_unset=True) applied with $set
SetStaffData(doc, staff) ==
    [doc EXCEPT !.name = IF "name" \in staff.fields_set THEN staff.name ELSE @,
                !.phone = IF "phone" \in staff.fields_set THEN staff.phone ELSE @]

\* The staff entries of a labour record renamed with the staff document
RenameEmbedded(record, doc) ==
    [record EXCEPT !.staffs = [k \in DOMAIN record.staffs |->
                                  IF record.staffs[k].id = doc.oid
                                  THEN [record.staffs[k] EXCEPT !.name = doc.name]
                                  ELSE record.staffs[k]]]

\* An update that also rewrites the names embedded in the labour records
update_staff_Cascade(staff_id, staff) ==
    /\ UNCHANGED office_vars
    /\ UNCHANGED <<price_settings_collection, next_labour_oid, next_staff_oid, priced_with>>
    /\ LET hits == {i \in DOMAIN staff_collection : staff_collection[i].staff_id = staff_id}
           i == CHOOSE i \in hits : \A j \in hits : i <= j
       IN  IF staff.fields_set = {}
           THEN /\ resp' = Response("update_staff", 400, NoBody)
                /\ UNCHANGED <<staff_collection, labour_records_collection>>
           ELSE IF hits = {}
           THEN /\ resp' = Response("update_staff", 404, NoBody)
                /\ UNCHANGED <<staff_collection, labour_records_collection>>
           ELSE /\ staff_collection' =
                      [staff_collection EXCEPT ![i] = SetStaffData(@, staff)]
                /\ labour_records_collection' =
                      [k \in DOMAIN labour_records_collection |->
                          RenameEmbedded(labour_records_collection[k],
                                         SetStaffData(staff_collection[i], staff))]
                /\ resp' = Response("update_staff", 200, [staff_id |-> staff_id])

\* Lines 75-89
update_staff(staff_id, staff) ==
    /\ UNCHANGED office_vars
    /\ UNCHANGED <<price_settings_collection, labour_records_collection, next_labour_oid,
                   next_staff_oid, priced_with>>
    /\ LET hits == {i \in DOMAIN staff_collection : staff_collection[i].staff_id = staff_id}
           i == CHOOSE i \in hits : \A j \in hits : i <= j
       IN  IF staff.fields_set = {}
           THEN /\ resp' = Response("update_staff", 400, NoBody)
                /\ UNCHANGED staff_collection
           ELSE IF hits = {}
           THEN /\ resp' = Response("update_staff", 404, NoBody)
                /\ UNCHANGED staff_collection
           ELSE /\ staff_collection' =
                      [staff_collection EXCEPT ![i] = SetStaffData(@, staff)]
                /\ resp' = Response("update_staff", 200, [staff_id |-> staff_id])

\* Lines 96-109
delete_staff(staff_id) ==
    /\ UNCHANGED office_vars
    /\ UNCHANGED <<price_settings_collection, labour_records_collection, next_labour_oid,
                   next_staff_oid, priced_with>>
    /\ IF ~IsObjectId(staff_id)
       THEN /\ resp' = Response("delete_staff", 400, NoBody)
            /\ UNCHANGED staff_collection
       ELSE LET hits == {i \in DOMAIN staff_collection : staff_collection[i].oid = staff_id}
            IN  IF hits = {}
                THEN /\ resp' = Response("delete_staff", 404, NoBody)
                     /\ UNCHANGED staff_collection
                ELSE /\ staff_collection' =
                            RemoveAt(staff_collection, CHOOSE i \in hits : TRUE)
                     /\ resp' = Response("delete_staff", 200, [id |-> staff_id])

\* Staff entries as the client of the roster sends them: the id of the first
\* and second staff document, the first also under its new name
StaffA2 == [id |-> "s1", oid |-> Absent, name |-> "Anne"]

\* Requests of the roster: records priced by the service whose labour types
\* hold one keyword each, two of them with the same trimmed lower-cased type,
\* dated in November and in February 2026
RosterBodies ==
    { LabourBody(<<StaffA, StaffB>>, Num(7), "2026-11-03", "Labour Recycling ", {}, Zero, Zero),
      LabourBody(<<StaffA2>>, Num(10), "2026-11-30", "labour recycling", {}, Zero, Zero),
      LabourBody(<<StaffA>>, Num(10), "2026-02-28", "labour blending", {}, Zero, Zero) }

\* The draws of the roster: 999999 until the last attempt, then 555555
RosterDraws == { [i \in 1..max_attempts |-> IF i < max_attempts THEN 999999 ELSE 555555] }

\* staff_id values a client sends to /update/{staff_id}
RosterStaffIds == {999999, 100000}

\* Ids a client sends to /del/{staff_id}
RosterDeleteIds == {StaffOid(1), "bad-id"}

-----------------------------------------------------------------------------
(* routes/invoice_routes.py *)

MaxInvoices == 2    \* invoices ever inserted by create_invoice

\* str(ObjectId) of the n-th invoice inserted
InvoiceOid(n) == "i" \o Digit(n)

\* CustomerSerializer values
Customer(id, name) == [id |-> id, name |-> name, contact |-> "0800", address |-> "1 Mill Rd"]

\* InvoiceSerializer values as parsed from a request: every field with its
\* default, fields_set naming the optional fields the client set
\* (kgOut = 0, amount = 0, status = "in progress", recycler = None).
InvoiceBody(customer, processType, kgIn, date, fields_set, amount, status, recycler) ==
    [customer |-> customer, productType |-> "pp", processType |-> processType,
     kgIn |-> kgIn, kgOut |-> Zero, date |-> date, fields_set |-> fields_set,
     amount |-> IF "amount" \in fields_set THEN amount ELSE Zero,
     status |-> IF "status" \in fields_set THEN status ELSE "in progress",
     recycler |-> IF "recycler" \in fields_set THEN recycler ELSE Absent]

\* Bodies sent to /create-invoices: one that leaves the status to the service
\* and one whose client claims the invoice is completed already
InvoiceBodies ==
    { InvoiceBody(Customer("c1", "Ada"), <<"R">>, Num(10), "2026-01-10", {}, Zero, "", ""),
      InvoiceBody(Customer("c2", "Ben"), <<"C", "R">>, Num(20), "2026-03-05",
                  {"amount", "status", "recycler"}, Num(200), "completed", "a") }

\* Bodies sent to /update/{invoice_id}: the invoice is completed, reopened,
\* given a status of the client's own, stopped, or sent back without optional
\* fields
UpdateBodies ==
    { InvoiceBody(Customer("c1", "Ada"), <<"R">>, Num(10), "2026-01-10",
                  {"amount", "status"}, Num(100), "completed", ""),
      InvoiceBody(Customer("c1", "Ada"), <<"R">>, Num(10), "2026-01-10",
                  {"status"}, Zero, "in progress", ""),
      InvoiceBody(Customer("c1", "Ada"), <<"R">>, Num(10), "2026-01-10",
                  {"status"}, Zero, "cancelled", ""),
      InvoiceBody(Customer("c1", "Ada"), <<"R">>, Num(10), "2026-01-10",
                  {"status"}, Zero, "stopped", ""),
      InvoiceBody(Customer("c1", "Ada"), <<"R">>, Num(10), "2026-01-10", {}, Zero, "", "") }

\* Ids a client may send to the update and delete routes
InvoiceIds == {InvoiceOid(n) : n \in 1..MaxInvoices} \cup {"bad-id"}

\* (skip, limit) of the two listing routes: the defaults and a second page
Pages == {<<0, 10>>, <<1, 1>>}

\* Lines 46-58: the response dict of a stored invoice
invoice_helper(invoice) ==
    [id |-> invoice.oid, customer |-> invoice.customer, productType |-> invoice.productType,
     processType |-> invoice.processType, kgIn |-> invoice.kgIn, kgOut |-> invoice.kgOut,
     amount |-> invoice.amount, status |-> invoice.status, recycler |-> invoice.recycler,
     date |-> invoice.date]

\* Line 108 left out: the status of the request is stored
ForcedStatus_AsSent(invoice) == invoice.status

\* Line 108: invoice.status = "in progress"
ForcedStatus(invoice) == "in progress"

\* Line 109: model_dump(exclude={"id"}) of the request, as insert_one stores it
InvoiceDoc(oid, invoice) ==
    [oid |-> oid, customer |-> invoice.customer, productType |-> invoice.productType,
     processType |-> invoice.processType, kgIn |-> invoice.kgIn, kgOut |-> invoice.kgOut,
     amount |-> invoice.amount, status |-> ForcedStatus(invoice),
     recycler |-> invoice.recycler, date |-> invoice.date]

create_invoice(invoice) ==
    /\ next_invoice_oid < MaxInvoices
    /\ UNCHANGED wage_vars
    /\ UNCHANGED <<sales_collection, expenses_collection, purchases_collection,
                   customers_collection, upserts>>
    /\ LET doc == InvoiceDoc(InvoiceOid(next_invoice_oid + 1), invoice)
       IN  /\ invoices_collection' = Append(invoices_collection, doc)
           /\ next_invoice_oid' = next_invoice_oid + 1
           /\ resp' = Response("create_invoice", 200, invoice_helper(doc))

\* Lines 121-124: $set of model_dump(exclude_unset=True, exclude={"id"}): the
\* required fields and the optional fields the client set
SetUpdateData(doc, invoice) ==
    [doc EXCEPT !.customer = invoice.customer,
                !.productType = invoice.productType,
                !.processType = invoice.processType,
                !.kgIn = invoice.kgIn,
                !.date = invoice.date,
                !.kgOut = IF "kgOut" \in invoice.fields_set THEN invoice.kgOut ELSE @,
                !.amount = IF "amount" \in invoice.fields_set THEN invoice.amount ELSE @,
                !.status = IF "status" \in invoice.fields_set THEN invoice.status ELSE @,
                !.recycler = IF "recycler" \in invoice.fields_set THEN invoice.recycler ELSE @]

update_invoice(invoice_id, invoice) ==
    /\ UNCHANGED wage_vars
    /\ UNCHANGED <<next_invoice_oid, sales_collection, expenses_collection,
                   purchases_collection, customers_collection, upserts>>
    /\ IF ~IsObjectId(invoice_id)
       THEN \* ObjectId(invoice_id) raises InvalidId, which nothing catches
            /\ resp' = Response("update_invoice", 500, NoBody)
            /\ UNCHANGED invoices_collection
       ELSE LET hits == {i \in DOMAIN invoices_collection :
                            invoices_collection[i].oid = invoice_id}
                i == CHOOSE i \in hits : TRUE
                updated == SetUpdateData(invoices_collection[i], invoice)
                modified_count == IF hits # {} /\ updated # invoices_collection[i]
                                  THEN 1 ELSE 0
            IN  IF modified_count = 1
                THEN /\ invoices_collection' = [invoices_collection EXCEPT ![i] = updated]
                     /\ resp' = Response("update_invoice", 200, invoice_helper(updated))
                ELSE /\ resp' = Response("update_invoice", 404, NoBody)
                     /\ UNCHANGED invoices_collection

delete_invoice(invoice_id) ==
    /\ UNCHANGED wage_vars
    /\ UNCHANGED <<next_invoice_oid, sales_collection, expenses_collection,
                   purchases_collection, customers_collection, upserts>>
    /\ IF ~IsObjectId(invoice_id)
       THEN /\ resp' = Response("delete_invoice", 400, NoBody)
            /\ UNCHANGED invoices_collection
       ELSE LET hits == {i \in DOMAIN invoices_collection :
                            invoices_collection[i].oid = invoice_id}
            IN  IF hits = {}
                THEN /\ resp' = Response("delete_invoice", 404, NoBody)
                     /\ UNCHANGED invoices_collection
                ELSE /\ invoices_collection' =
                            RemoveAt(invoices_collection, CHOOSE i \in hits : TRUE)
                     /\ resp' = Response("delete_invoice", 200, NoBody)

\* cursor.sort("date", -1): the orders MongoDB may return, documents of one
\* date in any order
SortByDateDesc(docs) ==
    { [k \in DOMAIN docs |-> docs[p[k]]] :
        p \in { q \in [DOMAIN docs -> DOMAIN docs] :
                  /\ \A a, b \in DOMAIN docs : a # b => q[a] # q[b]
                  /\ \A a, b \in DOMAIN docs :
                        a < b => StrLeq(docs[q[b]].date, docs[q[a]].date) } }

\* cursor.skip(skip).limit(limit)
SkipLimit(docs, skip, limit) ==
    SubSeq(docs, skip + 1, IF skip + limit < Len(docs) THEN skip + limit ELSE Len(docs))

\* Line 81: {"status": {"$in": ["in progress", "stopped"]}}
OpenQuery(invoice) == invoice.status \in {"in progress", "stopped"}

\* Line 94: {"status": "completed"}
CompletedQuery(invoice) == invoice.status = "completed"

\* Lines 84-85 and 97-98: the total and the page of invoices returned
ListBody(found, sorted, skip, limit) ==
    [total |-> Len(found),
     invoices |-> [k \in DOMAIN SkipLimit(sorted, skip, limit) |->
                     invoice_helper(SkipLimit(sorted, skip, limit)[k])]]

get_open_invoices(skip, limit) ==
    /\ UNCHANGED wage_vars
    /\ UNCHANGED office_vars
    /\ LET found == SelectSeq(invoices_collection, OpenQuery)
       IN  \E sorted \in SortByDateDesc(found) :
              resp' = Response("get_open_invoices", 200, ListBody(found, sorted, skip, limit))

get_completed_invoices(skip, limit) ==
    /\ UNCHANGED wage_vars
    /\ UNCHANGED office_vars
    /\ LET found == SelectSeq(invoices_collection, CompletedQuery)
       IN  \E sorted \in SortByDateDesc(found) :
              resp' = Response("get_completed_invoices", 200,
                               ListBody(found, sorted, skip, limit))

-----------------------------------------------------------------------------
(* routes/stats_routes.py *)

MaxSample == 7      \* invoices in the collection the statistics read

\* $limit of get_top_customers
TopLimit == 5

\* a <= b for two rationals
RLeq(a, b) == a.n * b.d <= b.n * a.d

\* $sum of a field over documents
RECURSIVE SumField(_, _)
SumField(docs, field) ==
    IF docs = <<>> THEN Zero
    ELSE RAdd(Head(docs)[field], SumField(Tail(docs), field))

\* The subsequence of docs at the positions of a set, in the order of docs
RECURSIVE Pick(_, _, _)
Pick(docs, positions, i) ==
    IF i > Len(docs) THEN <<>>
    ELSE (IF i \in positions THEN <<docs[i]>> ELSE <<>>) \o Pick(docs, positions, i + 1)

\* A stored invoice
StoredInvoice(n, name, processType, kgIn, amount, status, recycler, date) ==
    [oid |-> InvoiceOid(n), customer |-> Customer("c", name), productType |-> "pp",
     processType |-> processType, kgIn |-> kgIn, kgOut |-> Zero, amount |-> amount,
     status |-> status, recycler |-> recycler, date |-> date]

\* Invoices as create_invoice and update_invoice leave them: completed, in
\* progress and stopped ones, of this year and of the last, with every
\* spelling of the recycler and process types in several orders
InvoicePool ==
    << StoredInvoice(1, "Ada", <<"R">>, Num(10), Num(100), "completed", "a", "2026-01-10"),
       StoredInvoice(2, "Ben", <<"C", "R">>, Num(20), Num(200), "completed", "A", "2026-01-20"),
       StoredInvoice(3, "Cy", <<"R", "C">>, Num(5), Num(300), "completed", "b", "2026-03-05"),
       StoredInvoice(4, "Dee", <<"B", "R", "B">>, Num(7), Num(300), "completed", Absent,
                     "2025-03-09"),
       StoredInvoice(5, "Eve", <<"B", "C", "R">>, Num(3), Num(100), "completed", "B",
                     "2026-12-31"),
       StoredInvoice(6, "Fay", <<"C", "B">>, Num(8), Num(400), "completed", "a", "2026-01-11"),
       StoredInvoice(7, "Ada", <<"R">>, Num(4), Num(500), "in progress", "b", "2026-01-15"),
       StoredInvoice(8, "Gus", <<"B">>, Num(6), Num(50), "stopped", "a", "2025-01-02"),
       StoredInvoice(9, "Ben", <<"R", "C", "R">>, Num(9), Num(75), "completed", "a",
                     "2026-01-25") >>

\* The invoice collections the statistics are computed over
SampleInvoices ==
    { Pick(InvoicePool, positions, 1) :
        positions \in {p \in SUBSET DOMAIN InvoicePool : Cardinality(p) <= MaxSample} }

\* The other collections get_stats reads: sales, expenses, purchases,
\* customers and staff
Ledgers ==
    { [sales |-> <<>>, expenses |-> <<>>, purchases |-> <<>>, customers |-> <<>>,
       staff |-> <<>>],
      [sales |-> << [amount |-> Num(40), date |-> "2026-01-03"],
                    [amount |-> Num(60), date |-> "2026-01-20"],
                    [amount |-> Num(7), date |-> "2026-12-01"],
                    [amount |-> Num(5), date |-> "2025-02-01"] >>,
       expenses |-> << [amount |-> Num(15)] >>,
       purchases |-> << [kg |-> Num(12), amount |-> Num(30)] >>,
       customers |-> << Customer("c1", "Ada") >>,
       staff |-> << [id |-> Absent, oid |-> StaffOid(1), staff_id |-> 100000,
                     name |-> "Ann", phone |-> "0800", dateAdded |-> "2026-01-05"] >>] }

\* Years of datetime.now() when a request is served
Years == {2025, 2026}

\* Lines 94-103: the pipeline has no $match stage, every invoice is grouped
ProcessInvoices(invoices) == invoices

\* Lines 69-175
get_stats ==
    /\ UNCHANGED wage_vars
    /\ UNCHANGED office_vars
    /\ LET process_invoices == ProcessInvoices(invoices_collection)
       IN  resp' = Response("get_stats", 200,
              [total_direct_sales |-> [count |-> Len(sales_collection),
                                       amount |-> SumField(sales_collection, "amount")],
               total_process_sales |-> [count |-> Len(process_invoices),
                                        amount |-> SumField(process_invoices, "amount")],
               total_kg |-> SumField(process_invoices, "kgIn"),
               total_expenses |-> [count |-> Len(expenses_collection),
                                   amount |-> SumField(expenses_collection, "amount")],
               total_purchase_kg |-> SumField(purchases_collection, "kg"),
               total_purchase_amount |-> SumField(purchases_collection, "amount"),
               total_customers |-> Len(customers_collection),
               total_staff_count |-> Len(staff_collection)])

\* The iteration order of lines 232, 294, 447 and 518
Months == <<"01", "02", "03", "04", "05", "06", "07", "08", "09", "10", "11", "12">>

\* month_map of lines 211-224, 273-286, 434-438 and 506-510
month_map ==
    [m \in Range(Months) |->
        CASE m = "01" -> "Jan" [] m = "02" -> "Feb" [] m = "03" -> "Mar" [] m = "04" -> "Apr"
          [] m = "05" -> "May" [] m = "06" -> "Jun" [] m = "07" -> "Jul" [] m = "08" -> "Aug"
          [] m = "09" -> "Sep" [] m = "10" -> "Oct" [] m = "11" -> "Nov" [] m = "12" -> "Dec"]

\* {"$regex": f"^{current_year}"}
RegexYear(date, current_year) ==
    Len(date) >= Len(current_year) /\ SubSeq(date, 1, Len(current_year)) = current_year

\* {"$substr": ["$date", 5, 2]}
SubstrMonth(date) == SubSeq(date, 6, 7)

\* $match on the year, $group by month with $sum of a field: the dictionary
\* monthly_dict built from the aggregation
MonthlyDict(docs, current_year, field) ==
    LET matched == SelectSeq(docs, LAMBDA d : RegexYear(d.date, current_year))
    IN  [m \in {SubstrMonth(matched[i].date) : i \in DOMAIN matched} |->
            SumField(SelectSeq(matched, LAMBDA d : SubstrMonth(d.date) = m), field)]

\* The loop with labels.append inside `if month in monthly_dict`
MonthLabels_OnlyWithData(monthly_dict) ==
    LET present == SelectSeq(Months, LAMBDA m : m \in DOMAIN monthly_dict)
    IN  [k \in DOMAIN present |-> month_map[present[k]]]

\* labels.append(month_map[month]) for each of the twelve months
MonthLabels(monthly_dict) == [k \in DOMAIN Months |-> month_map[Months[k]]]

\* monthly_dict.get(month, 0) for each of the twelve months
MonthValues(monthly_dict) ==
    [k \in DOMAIN Months |-> DictGet(monthly_dict, Months[k], Zero)]

\* datetime.now().strftime("%Y")
StrftimeYear(year) == Pad4(year)

\* Lines 178-236
get_monthly_invoice_kg(year) ==
    /\ UNCHANGED wage_vars
    /\ UNCHANGED office_vars
    /\ LET monthly_dict == MonthlyDict(invoices_collection, StrftimeYear(year), "kgIn")
       IN  resp' = Response("get_monthly_invoice_kg", 200,
                            [year |-> year, labels |-> MonthLabels(monthly_dict),
                             kgCounts |-> MonthValues(monthly_dict)])

\* Lines 239-298
get_monthly_sales(year) ==
    /\ UNCHANGED wage_vars
    /\ UNCHANGED office_vars
    /\ LET monthly_dict == MonthlyDict(sales_collection, StrftimeYear(year), "amount")
       IN  resp' = Response("get_monthly_sales", 200,
                            [year |-> year, labels |-> MonthLabels(monthly_dict),
                             salesAmounts |-> MonthValues(monthly_dict)])

\* Lines 469-522
get_monthly_process_sales(year) ==
    /\ UNCHANGED wage_vars
    /\ UNCHANGED office_vars
    /\ LET monthly_dict == MonthlyDict(SelectSeq(invoices_collection, CompletedQuery),
                                       StrftimeYear(year), "amount")
       IN  resp' = Response("get_monthly_process_sales", 200,
                            [year |-> year, labels |-> MonthLabels(monthly_dict),
                             salesAmounts |-> MonthValues(monthly_dict)])

\* {"$setUnion": ["$processType", []]}: the distinct codes in ascending order
RECURSIVE Ascending(_)
Ascending(codes) ==
    IF codes = {} THEN <<>>
    ELSE LET least == CHOOSE c \in codes : \A d \in codes : StrLeq(c, d)
         IN  <<least>> \o Ascending(codes \ {least})

SetUnion(processType) == Ascending(Range(processType))

\* The $reduce of lines 327-337: the codes joined by hyphens
RECURSIVE Reduce(_, _)
Reduce(input, value) ==
    IF input = <<>> THEN value
    ELSE Reduce(Tail(input), IF value = "" THEN Head(input)
                             ELSE value \o "-" \o Head(input))

ProcessTypeKey(invoice) == Reduce(SetUnion(invoice.processType), "")

\* Lines 311-356: result_dict, the number of completed invoices of each key
ResultDict(invoices) ==
    LET matched == SelectSeq(invoices, CompletedQuery)
    IN  [key \in {ProcessTypeKey(matched[i]) : i \in DOMAIN matched} |->
            Len(SelectSeq(matched, LAMBDA d : ProcessTypeKey(d) = key))]

\* A mapping that renames no key
expected_mapping_Identity ==
    [key \in {"R", "C", "B"} |-> key]

\* Lines 361-369
expected_mapping ==
    [key \in {"R", "C", "B", "B-C", "B-R", "C-R", "B-C-R"} |->
        CASE key = "R" -> "R" [] key = "C" -> "C" [] key = "B" -> "B"
          [] key = "B-C" -> "C-B" [] key = "B-R" -> "R-B" [] key = "C-R" -> "R-C"
          [] key = "B-C-R" -> "R-C-B"]

\* Sum of a dictionary of integers over a set of its keys
RECURSIVE SumCounts(_, _)
SumCounts(dict, keys) ==
    IF keys = {} THEN 0
    ELSE LET k == CHOOSE k \in keys : TRUE
         IN  dict[k] + SumCounts(dict, keys \ {k})

\* Lines 372-376: the counts added up under the renamed keys
NormalizedResult(result_dict) ==
    LET new_key(key) == DictGet(expected_mapping, key, key)
    IN  [label \in {new_key(key) : key \in DOMAIN result_dict} |->
            SumCounts(result_dict, {key \in DOMAIN result_dict : new_key(key) = label})]

\* Line 379
fixed_labels == <<"R", "C", "B", "R-C", "R-B", "C-B", "R-C-B">>

\* Lines 301-382
get_process_type_count ==
    /\ UNCHANGED wage_vars
    /\ UNCHANGED office_vars
    /\ LET normalized_result == NormalizedResult(ResultDict(invoices_collection))
       IN  resp' = Response("get_process_type_count", 200,
                            [labels |-> fixed_labels,
                             counts |-> [k \in DOMAIN fixed_labels |->
                                           DictGet(normalized_result, fixed_labels[k], 0)]])

\* Lines 397-426: month_data, for each month the totals of its recyclers
MonthData(invoices) ==
    LET matched == SelectSeq(invoices, LAMBDA d : d.recycler \in {"a", "b"})
        total(m, r) == SumField(SelectSeq(matched, LAMBDA d : SubstrMonth(d.date) = m
                                                              /\ d.recycler = r), "kgIn")
    IN  [m \in {SubstrMonth(matched[i].date) : i \in DOMAIN matched} |->
            { [recycler |-> matched[i].recycler, totalKg |-> total(m, matched[i].recycler)] :
                i \in {j \in DOMAIN matched : SubstrMonth(matched[j].date) = m} }]

\* Sum of totalKg over a set of entries
RECURSIVE SumTotalKg(_)
SumTotalKg(entries) ==
    IF entries = {} THEN Zero
    ELSE LET e == CHOOSE e \in entries : TRUE
         IN  RAdd(e.totalKg, SumTotalKg(entries \ {e}))

\* Lines 449-456: the total of one recycler in one month
RecyclerTotal(month_data, m, recycler) ==
    IF m \in DOMAIN month_data
    THEN SumTotalKg({e \in month_data[m] : Lower(e.recycler) = recycler})
    ELSE Zero

\* Lines 387-464
get_recycler_monthly_comparison ==
    /\ UNCHANGED wage_vars
    /\ UNCHANGED office_vars
    /\ LET month_data == MonthData(invoices_collection)
       IN  resp' = Response("get_recycler_monthly_comparison", 200,
                            [labels |-> [k \in DOMAIN Months |-> month_map[Months[k]]],
                             recyclerA |-> [k \in DOMAIN Months |->
                                              RecyclerTotal(month_data, Months[k], "a")],
                             recyclerB |-> [k \in DOMAIN Months |->
                                              RecyclerTotal(month_data, Months[k], "b")]])

\* Lines 538-542: one document per customer name of the completed invoices
TotalSales(invoices) ==
    LET matched == SelectSeq(invoices, CompletedQuery)
    IN  { [name |-> name,
           totalSales |-> SumField(SelectSeq(matched, LAMBDA d : d.customer.name = name),
                                   "amount")] :
            name \in {matched[i].customer.name : i \in DOMAIN matched} }

\* {"$sort": {"totalSales": 1}}: ascending
RECURSIVE SortByTotalSales_Ascending(_)
SortByTotalSales_Ascending(groups) ==
    IF groups = {} THEN {<<>>}
    ELSE UNION { { <<g>> \o rest : rest \in SortByTotalSales_Ascending(groups \ {g}) } :
                   g \in {x \in groups : \A y \in groups : RLeq(x.totalSales, y.totalSales)} }

\* {"$sort": {"totalSales": -1}}: the orders MongoDB may return, customers of
\* one total in any order
RECURSIVE SortByTotalSales(_)
SortByTotalSales(groups) ==
    IF groups = {} THEN {<<>>}
    ELSE UNION { { <<g>> \o rest : rest \in SortByTotalSales(groups \ {g}) } :
                   g \in {x \in groups : \A y \in groups : RLeq(y.totalSales, x.totalSales)} }

\* {"$limit": 5}
Limit(docs) == SubSeq(docs, 1, IF Len(docs) < TopLimit THEN Len(docs) ELSE TopLimit)

\* Lines 526-555
get_top_customers ==
    /\ UNCHANGED wage_vars
    /\ UNCHANGED office_vars
    /\ \E sorted \in SortByTotalSales(TotalSales(invoices_collection)) :
          LET agg_result == Limit(sorted)
          IN  resp' = Response("get_top_customers", 200,
                               [labels |-> [k \in DOMAIN agg_result |-> agg_result[k].name],
                                salesAmounts |-> [k \in DOMAIN agg_result |->
                                                    agg_result[k].totalSales]])

-----------------------------------------------------------------------------
(* routes/prices_routes.py: get_price_settings, and update_price_settings  *)
(* as MongoDB executes its upsert                                          *)

\* Lines 20-32: the default values
DefaultSettings ==
    [company_prices |-> [recyclingKg |-> Zero, blendingKg |-> Zero, crushingKg |-> Zero],
     labour_prices  |-> [recycling |-> Zero, blending |-> Zero,
                         crushingWaste |-> Zero, crushingSack |-> Zero]]

\* Lines 14-37
get_price_settings ==
    /\ UNCHANGED wage_vars
    /\ UNCHANGED office_vars
    /\ resp' = Response("get_price_settings", 200,
                        IF price_settings_collection = <<>> THEN DefaultSettings
                        ELSE price_settings_collection[1])

\* Line 46, first half: update_one({}, ..., upsert=True) has looked for a
\* document and found none. The collection has no unique index, so nothing
\* orders this call with the other calls that found none.
update_price_settings_match(settings) ==
    /\ price_settings_collection = <<>>
    /\ Len(upserts) < MaxInFlight
    /\ upserts' = Append(upserts, settings)
    /\ UNCHANGED wage_vars
    /\ UNCHANGED <<invoices_collection, next_invoice_oid, sales_collection,
                   expenses_collection, purchases_collection, customers_collection, resp>>

\* Lines 46-49, second half: the call that found no document inserts its own,
\* result.upserted_id is set and the settings are returned
update_price_settings_upsert(i) ==
    /\ i \in DOMAIN upserts
    /\ price_settings_collection' = Append(price_settings_collection, upserts[i])
    /\ upserts' = RemoveAt(upserts, i)
    /\ resp' = Response("update_price_settings", 200, upserts[i])
    /\ UNCHANGED <<labour_records_collection, staff_collection, next_labour_oid,
                   next_staff_oid, priced_with, creating, request>>
    /\ UNCHANGED <<invoices_collection, next_invoice_oid, sales_collection,
                   expenses_collection, purchases_collection, customers_collection>>

-----------------------------------------------------------------------------
(* The wage service: an empty database, then any sequence of requests to   *)
(* the price, labour-record and wage routes and of staff registrations     *)

\* Ids a client may send to the delete route
LabourIds == {LabourOid(n) : n \in 1..MaxRecords} \cup {"bad-id"}

Init ==
    /\ price_settings_collection = <<>>
    /\ labour_records_collection = <<>>
    /\ staff_collection = <<>>
    /\ next_labour_oid = 0
    /\ next_staff_oid = 0
    /\ priced_with = EmptyDict
    /\ invoices_collection = <<>>
    /\ next_invoice_oid = 0
    /\ sales_collection = <<>>
    /\ expenses_collection = <<>>
    /\ purchases_collection = <<>>
    /\ customers_collection = <<>>
    /\ upserts = <<>>
    /\ creating = <<>>
    /\ request = NoHeaders
    /\ resp = Response("none", 0, NoBody)

Next ==
    \/ \E settings \in PriceSettings : update_price_settings(settings)
    \/ \E record \in LabourBodies : create_labour_record(record)
    \/ \E labour_id \in LabourIds : delete_labour_record(labour_id)
    \/ get_wages
    \/ \E now \in Nows : get_monthly_wages(now)
    \/ \E staff \in StaffBodies, draws \in StaffIdDraws : create_staff(staff, draws)

Spec == Init /\ [][Next]_vars

\* The pricing specification: the price table, one labour record at a time
\* drawn from AllocBodies, and the wages of that record
NextAlloc ==
    \/ \E settings \in PriceSettings : update_price_settings(settings)
    \/ \E record \in AllocBodies :
          labour_records_collection = <<>> /\ create_labour_record(record)
    \/ \E labour_id \in LabourIds : delete_labour_record(labour_id)
    \/ get_wages

SpecAlloc == Init /\ [][NextAlloc]_vars

\* The invoice desk: invoices are created, updated, deleted and listed
NextInvoice ==
    \/ \E invoice \in InvoiceBodies : create_invoice(invoice)
    \/ \E invoice_id \in InvoiceIds, invoice \in UpdateBodies : update_invoice(invoice_id, invoice)
    \/ \E invoice_id \in InvoiceIds : delete_invoice(invoice_id)
    \/ \E page \in Pages : get_open_invoices(page[1], page[2])
    \/ \E page \in Pages : get_completed_invoices(page[1], page[2])

SpecInvoice == Init /\ [][NextInvoice]_vars

\* The statistics desk: a database the other routes have filled, read by the
\* routes of routes/stats_routes.py
InitStats ==
    /\ price_settings_collection = <<>>
    /\ labour_records_collection = <<>>
    /\ next_labour_oid = 0
    /\ priced_with = EmptyDict
    /\ upserts = <<>>
    /\ creating = <<>>
    /\ request = NoHeaders
    /\ invoices_collection \in SampleInvoices
    /\ next_invoice_oid = Len(InvoicePool)
    /\ \E ledger \in Ledgers :
          /\ sales_collection = ledger.sales
          /\ expenses_collection = ledger.expenses
          /\ purchases_collection = ledger.purchases
          /\ customers_collection = ledger.customers
          /\ staff_collection = ledger.staff
          /\ next_staff_oid = Len(ledger.staff)
    /\ resp = Response("none", 0, NoBody)

NextStats ==
    \/ get_stats
    \/ \E year \in Years : get_monthly_invoice_kg(year)
    \/ \E year \in Years : get_monthly_sales(year)
    \/ \E year \in Years : get_monthly_process_sales(year)
    \/ get_process_type_count
    \/ get_recycler_monthly_comparison
    \/ get_top_customers

SpecStats == InitStats /\ [][NextStats]_vars

\* The price desk: /getprices and /putprices served concurrently; a /putprices
\* request runs in one step, or in two when its upsert matches no document
NextPrices ==
    \/ get_price_settings
    \/ \E settings \in PriceSettings : update_price_settings(settings)
    \/ \E settings \in PriceSettings : update_price_settings_match(settings)
    \/ \E i \in 1..MaxInFlight : update_price_settings_upsert(i)

SpecPrices == Init /\ [][NextPrices]_vars

\* The roster: staff are registered, renamed and deleted while labour records
\* that name them are created, each request body once, and the two wage
\* views are read
NextRoster ==
    \/ \E settings \in PriceSettings : update_price_settings(settings)
    \/ \E record \in RosterBodies :
          /\ \A i \in DOMAIN labour_records_collection :
                labour_records_collection[i].date # record.date
          /\ create_labour_record(record)
    \/ \E staff \in StaffBodies, draws \in RosterDraws : create_staff(staff, draws)
    \/ \E staff_id \in RosterStaffIds, staff \in UpdateStaffBodies : update_staff(staff_id, staff)
    \/ \E staff_id \in RosterDeleteIds : delete_staff(staff_id)
    \/ get_wages
    \/ \E now \in Nows : get_monthly_wages(now)

SpecRoster == Init /\ [][NextRoster]_vars

-----------------------------------------------------------------------------
(* dependencies.py, main.py *)

\* db["companies"] and db["staff"]: no route of the application writes them
db_companies == << [companyId |-> "c1", companyAuthKeys |-> <<"key-company">>] >>

db_staff == << [staffId |-> "k1", companyId |-> "c1", staffApiKey |-> "key-staff"] >>

\* The X-API-KEY headers of the incoming requests
ApiKeys == {Absent, "", "key-company", "key-staff", "key-unknown"}

\* dependencies.py lines 4-24: the answer of the dependency to a request,
\* 200 where it returns and lets the request through
api_key_dependency(req) ==
    LET api_key == req.X_API_KEY IN
    IF api_key = Absent \/ api_key = ""
        THEN [status |-> 403, detail |-> "API key is missing"]
    ELSE IF \E i \in DOMAIN db_companies :
               \E k \in DOMAIN db_companies[i].companyAuthKeys :
                   db_companies[i].companyAuthKeys[k] = api_key
        THEN [status |-> 200, detail |-> "company"]
    ELSE IF \E i \in DOMAIN db_staff : db_staff[i].staffApiKey = api_key
        THEN [status |-> 200, detail |-> "staff"]
    ELSE [status |-> 403, detail |-> "Invalid API key"]

\* main.py lines 23-54: the application takes a request in. The routers are
\* included without dependencies, and no middleware reads the headers, so the
\* request goes to its handler as it came.
receive(api_key) ==
    /\ request' = [X_API_KEY |-> api_key]
    /\ UNCHANGED <<price_settings_collection, labour_records_collection, staff_collection,
                   next_labour_oid, next_staff_oid, priced_with, invoices_collection,
                   next_invoice_oid, sales_collection, expenses_collection,
                   purchases_collection, customers_collection, upserts, creating, resp>>

NextGate ==
    \/ \E api_key \in ApiKeys : receive(api_key)
    \/ get_price_settings
    \/ \E settings \in PriceSettings : update_price_settings(settings)
    \/ \E staff \in StaffBodies, draws \in RosterDraws : create_staff(staff, draws)
    \/ \E invoice \in InvoiceBodies : create_invoice(invoice)
    \/ get_stats
    \/ get_wages

SpecGate == Init /\ [][NextGate]_vars

\* Concurrent POST /create-staff requests
NextHiring ==
    \/ \E staff \in StaffBodies, draws \in StaffIdDraws : create_staff_generate(staff, draws)
    \/ \E i \in 1..MaxInFlight : create_staff_insert(i)
    \/ \E staff_id \in RosterStaffIds, staff \in UpdateStaffBodies : update_staff(staff_id, staff)
    \/ \E staff_id \in RosterDeleteIds : delete_staff(staff_id)

SpecHiring == Init /\ [][NextHiring]_vars

-----------------------------------------------------------------------------
(* Vocabulary of the properties *)

RSub(a, b) == RAdd(a, RMul(Num(-1), b))

\* The rate of section 4.1: the first keyword of the list that occurs in the
\* lower-cased labour type decides; no keyword, rate 0.
RateKeywords == <<"recycling", "blending", "crushing waste", "crushing sack">>

RateKeys == <<"recycling", "blending", "crushingWaste", "crushingSack">>

Matches(labourType) ==
    {i \in DOMAIN RateKeywords : Contains(Lower(labourType), RateKeywords[i])}

FirstMatch(labourType) ==
    CHOOSE i \in Matches(labourType) : \A j \in Matches(labourType) : i <= j

ClaimedRate(labour_prices, labourType) ==
    IF Matches(labourType) = {} THEN Zero
    ELSE labour_prices[RateKeys[FirstMatch(labourType)]]

Stored == Range(labour_records_collection)

\* Records whose amount and memberShare create_labour_record computed
Computed == {r \in Stored : priced_with[r.oid] # <<>>}

HasPrices == price_settings_collection # <<>>

CurrentPrices == price_settings_collection[1].labour_prices

\* The rate in force: that of the stored price table, 0 without one
RateInForce(labourType) ==
    IF HasPrices THEN ClaimedRate(CurrentPrices, labourType) ELSE Zero

Created == resp.op = "create_labour_record" /\ resp.status = 200

-----------------------------------------------------------------------------
(* C1 *)

\* C1 as claimed: whatever the request body contained, a record created with a
\* non-empty staffs list holds amount = kg * rate(labourType) under the price
\* table in force at its creation, and memberShare = amount / len(staffs).
\* Stated of the record a successful create-labours has just stored.
C1_AnyBodyIsPriced ==
    (Created /\ resp.body.staffs # <<>>) =>
        /\ resp.body.amount = RMul(resp.body.kg, RateInForce(resp.body.labourType))
        /\ resp.body.memberShare = RDiv(resp.body.amount, Len(resp.body.staffs))

\* C1 amended: in every state reached by create-labours, labour delete and
\* putprices requests, every stored record with a non-empty staffs list whose
\* request left amount or memberShare unset holds amount = kg * rate(labourType),
\* the rate of the price table in force when it was created, and
\* memberShare = amount / len(staffs).
C1_ComputedRecordsArePriced ==
    \A r \in Computed :
        r.staffs # <<>> =>
            /\ r.amount = RMul(r.kg, ClaimedRate(priced_with[r.oid][1], r.labourType))
            /\ r.memberShare = RDiv(r.amount, Len(r.staffs))

\* A priced record with staff is still stored after the prices have changed.
C1_Witness ==
    /\ resp.op = "update_price_settings"
    /\ resp.status = 200
    /\ \E r \in Computed :
          /\ r.staffs # <<>>
          /\ priced_with[r.oid][1] # CurrentPrices
          /\ r.amount # Zero

-----------------------------------------------------------------------------
(* C2 *)

\* C2: create_labour_record takes the rate of the first of 'recycling',
\* 'blending', 'crushing waste', 'crushing sack' that occurs in the lower-cased
\* labourType; a label with none of them is stored with amount 0, and no
\* request fails while a price document exists.
C2_FirstMatchDecidesRate ==
    /\ (Created /\ resp.body \in Computed) =>
          /\ resp.body.amount =
                 RMul(ClaimedRate(CurrentPrices, resp.body.labourType), resp.body.kg)
          /\ Matches(resp.body.labourType) = {} => resp.body.amount = Zero
    /\ (resp.op = "create_labour_record" /\ HasPrices) =>
          resp.status = 200 /\ resp.body \in Stored

\* A label with two keywords has been priced by the first of them, which is
\* not the one that occurs first in the label.
C2_Witness ==
    /\ Created
    /\ resp.body \in Computed
    /\ resp.body.labourType = "crushing waste recycling"
    /\ resp.body.amount = RMul(CurrentPrices.recycling, resp.body.kg)
    /\ resp.body.amount # RMul(CurrentPrices.crushingWaste, resp.body.kg)

\* A label without a keyword has been stored with amount 0.
C2_WitnessUnmatched ==
    /\ Created
    /\ resp.body \in Computed
    /\ Matches(resp.body.labourType) = {}
    /\ resp.body.amount = Zero

-----------------------------------------------------------------------------
(* C3 *)

\* The output field of GET /wages that belongs to each rate of the price table
FieldOfKey ==
    <<"amountRecycling", "amountBlending", "amountCrushingWaste", "amountCrushingSack">>

\* C3 as claimed: for the labour type of every stored record, GET /wages
\* selects the rate create_labour_record selects, and the output field that
\* belongs to it.
C3_SameSelection ==
    HasPrices =>
        \A r \in Stored :
            LET selected == WagesPrice(CurrentPrices, r.labourType)
            IN  /\ selected.labour_price = PricePerKg(CurrentPrices, r.labourType)
                /\ selected.labour_field =
                       IF Matches(r.labourType) = {} THEN Absent
                       ELSE FieldOfKey[FirstMatch(r.labourType)]

-----------------------------------------------------------------------------
(* C4 *)

SpecExamplePrices ==
    [recycling |-> Num(100), blending |-> Num(50), crushingWaste |-> Num(20),
     crushingSack |-> Num(10)]

IsSpecExample(r) ==
    /\ priced_with[r.oid] = <<SpecExamplePrices>>
    /\ r.kg = Num(10)
    /\ r.labourType = "labour recycling"
    /\ Len(r.staffs) = 2

\* C4: for a record priced by create_labour_record with N >= 1 staff entries,
\* memberShare * N = amount and amount = rate * kg; with the prices
\* {100, 50, 20, 10}, kg 10, 'labour recycling' and two staff the amount is
\* 1000 and the memberShare is 500.
C4_AllocationConservation ==
    \A r \in Computed :
        Len(r.staffs) >= 1 =>
            /\ RMul(r.memberShare, Num(Len(r.staffs))) = r.amount
            /\ r.amount = RMul(PricePerKg(priced_with[r.oid][1], r.labourType), r.kg)
            /\ IsSpecExample(r) => (r.amount = Num(1000) /\ r.memberShare = Num(500))

\* create-labours has just stored the example of the specification.
C4_Witness ==
    /\ Created
    /\ resp.body \in Computed
    /\ IsSpecExample(resp.body)

-----------------------------------------------------------------------------
(* C5 *)

WagesNow == Wages(labour_records_collection, CurrentPrices)

MonthlyNow ==
    [now \in Nows |-> MonthlyWages(labour_records_collection, staff_collection, now)]

\* The two results computed without the i-th stored record
WagesWithout(i) == Wages(RemoveAt(labour_records_collection, i), CurrentPrices)

MonthlyWithout(i) ==
    [now \in Nows |->
        MonthlyWages(RemoveAt(labour_records_collection, i), staff_collection, now)]

\* No request of the three operations ends in a division by zero.
NoZeroDivision ==
    resp.op \in {"create_labour_record", "get_wages", "get_monthly_wages"} =>
        resp.status # 500

\* A stored record without staff changes no entry of /wages or /monthly-wages.
EmptyStaffsAddNothing ==
    LET empty == {i \in DOMAIN labour_records_collection :
                     labour_records_collection[i].staffs = <<>>}
    IN  empty # {} =>
            LET wages == IF HasPrices THEN WagesNow ELSE <<>>
                monthly == MonthlyNow
            IN  \A i \in empty :
                    /\ HasPrices => wages = WagesWithout(i)
                    /\ monthly = MonthlyWithout(i)

\* C5 as claimed: no operation divides by zero, every stored record with an
\* empty staffs list has memberShare 0, and it adds 0 to every staff member's
\* totals in /wages and /monthly-wages.
C5_EmptyStaffsShareIsZero ==
    /\ NoZeroDivision
    /\ \A r \in Stored : r.staffs = <<>> => r.memberShare = Zero
    /\ EmptyStaffsAddNothing

\* C5 amended: no operation divides by zero; a record with an empty staffs
\* list whose request left amount or memberShare unset is stored with
\* memberShare 0; every record with an empty staffs list adds 0 to every staff
\* member's totals in /wages and /monthly-wages.
C5_ZeroStaffSafety ==
    /\ NoZeroDivision
    /\ \A r \in Computed : r.staffs = <<>> => r.memberShare = Zero
    /\ EmptyStaffsAddNothing

\* /wages has answered over a priced record without staff and a record with staff.
C5_Witness ==
    /\ resp.op = "get_wages"
    /\ resp.status = 200
    /\ resp.body # <<>>
    /\ \E r \in Computed : r.staffs = <<>> /\ r.amount # Zero /\ r.memberShare = Zero

-----------------------------------------------------------------------------
(* C6 *)

SumFields(e) ==
    RAdd(RAdd(RAdd(e.amountRecycling, e.amountBlending), e.amountCrushingWaste),
         e.amountCrushingSack)

\* The four amount fields summed over all entries of a /wages result
RECURSIVE PaidOut(_)
PaidOut(result) ==
    IF result = <<>> THEN Zero
    ELSE RAdd(SumFields(Head(result)), PaidOut(Tail(result)))

\* What the i-th stored record adds to the amounts of /wages
Contribution(i) == RSub(PaidOut(WagesNow), PaidOut(WagesWithout(i)))

KgTimesPrice(r) == RMul(r.kg, WagesPrice(CurrentPrices, r.labourType).labour_price)

EveryStaffHasId(r) == \A j \in DOMAIN r.staffs : Truthy(StaffKey(r.staffs[j]))

\* C6 as claimed: every record with N >= 1 staff entries and a matched labour
\* type adds kg * price to the amounts of /wages, summed over the staff entries
\* of the output.
C6_EveryRecordPaysOut ==
    HasPrices =>
        \A i \in DOMAIN labour_records_collection :
            LET r == labour_records_collection[i]
            IN  (Len(r.staffs) >= 1 /\ Matches(r.labourType) # {}) =>
                    Contribution(i) = KgTimesPrice(r)

\* C6 amended: every record with N >= 1 staff entries that all carry an id,
\* and a matched labour type, adds kg * price to the amounts of /wages,
\* summed over the staff entries of the output.
C6_PayoutConservation ==
    HasPrices =>
        \A i \in DOMAIN labour_records_collection :
            LET r == labour_records_collection[i]
            IN  (Len(r.staffs) >= 1 /\ EveryStaffHasId(r) /\ Matches(r.labourType) # {}) =>
                    Contribution(i) = KgTimesPrice(r)

\* /wages has paid a record of three staff entries out to two staff ids.
C6_Witness ==
    /\ resp.op = "get_wages"
    /\ resp.status = 200
    /\ Len(resp.body) = 2
    /\ \E r \in Stored :
          /\ Len(r.staffs) = 3
          /\ Matches(r.labourType) # {}
          /\ PaidOut(resp.body) = KgTimesPrice(r)
          /\ KgTimesPrice(r) # Zero

-----------------------------------------------------------------------------
(* C7 *)

\* C7: every entry GET /wages returns has
\* totalAmountDue = amountRecycling + amountBlending + amountCrushingWaste +
\* amountCrushingSack.
C7_TotalConsistency ==
    (resp.op = "get_wages" /\ resp.status = 200) =>
        \A i \in DOMAIN resp.body : resp.body[i].totalAmountDue = SumFields(resp.body[i])

\* /wages has returned an entry with an amount for crushing sacks.
C7_Witness ==
    /\ resp.op = "get_wages"
    /\ resp.status = 200
    /\ \E i \in DOMAIN resp.body :
          /\ resp.body[i].amountCrushingSack # Zero
          /\ resp.body[i].totalAmountDue = resp.body[i].amountCrushingSack

-----------------------------------------------------------------------------
(* C8 *)

\* A record dated in the month of now names the staff id
NamedInWindow(staff_id, now) ==
    \E r \in Stored :
        /\ InWindow(r.date, now)
        /\ \E j \in DOMAIN r.staffs : r.staffs[j].id = staff_id

\* C8: every staff id of the roster appears exactly once in the
\* /monthly-wages output; a roster member that no record dated in the window
\* names has totalWage 0 and breakdown {}.
C8_RosterCompleteness ==
    resp.op = "get_monthly_wages" =>
        LET out == resp.body.result
        IN  \A k \in DOMAIN staff_collection :
                LET staff_id == staff_collection[k].oid
                    at == {i \in DOMAIN out : out[i].id = staff_id}
                IN  /\ Cardinality(at) = 1
                    /\ ~NamedInWindow(staff_id, resp.body.now) =>
                          \A i \in at : out[i].totalWage = Zero /\ out[i].breakdown = EmptyDict

\* /monthly-wages has answered for a roster of two, one member with a wage
\* and one that no record names.
C8_Witness ==
    /\ resp.op = "get_monthly_wages"
    /\ Len(staff_collection) = 2
    /\ \E i, j \in DOMAIN resp.body.result :
          /\ resp.body.result[i].totalWage # Zero
          /\ resp.body.result[j].totalWage = Zero
          /\ resp.body.result[j].breakdown = EmptyDict

-----------------------------------------------------------------------------
(* C9 *)

\* How often the staff list of a record names the staff id
Mentions(r, staff_id) == Cardinality({j \in DOMAIN r.staffs : r.staffs[j].id = staff_id})

\* The stored memberShare of the records dated in the month of now, once for
\* every staff entry that names the staff id
RECURSIVE ShareSum(_, _, _)
ShareSum(records, staff_id, now) ==
    IF records = <<>> THEN Zero
    ELSE RAdd(IF InWindow(Head(records).date, now)
              THEN RMul(Num(Mentions(Head(records), staff_id)), Head(records).memberShare)
              ELSE Zero,
              ShareSum(Tail(records), staff_id, now))

\* C9: /monthly-wages gives every roster member the sum of the stored
\* memberShare of the records that name it, whatever the prices are; a
\* putprices request leaves the amount and memberShare of every stored labour
\* record, and so the /monthly-wages result, unchanged.
C9_PricesDoNotTouchWages ==
    /\ [](resp.op = "get_monthly_wages" =>
             \A i \in DOMAIN resp.body.result :
                 resp.body.result[i].totalWage =
                     ShareSum(labour_records_collection, resp.body.result[i].id,
                              resp.body.now))
    /\ [][resp'.op = "update_price_settings" =>
             /\ Len(labour_records_collection') = Len(labour_records_collection)
             /\ \A i \in DOMAIN labour_records_collection :
                   /\ labour_records_collection'[i].amount =
                          labour_records_collection[i].amount
                   /\ labour_records_collection'[i].memberShare =
                          labour_records_collection[i].memberShare
             /\ \A now \in Nows :
                   MonthlyWages(labour_records_collection', staff_collection', now) =
                       MonthlyWages(labour_records_collection, staff_collection, now)]_vars

\* putprices has changed the prices under a record whose share is in the
\* monthly wages of a roster member.
C9_Witness ==
    /\ resp.op = "update_price_settings"
    /\ resp.status = 200
    /\ \E r \in Computed : priced_with[r.oid][1] # CurrentPrices /\ r.memberShare # Zero
    /\ \E now \in Nows : \E i \in DOMAIN MonthlyNow[now] : MonthlyNow[now][i].totalWage # Zero

-----------------------------------------------------------------------------
(* C10 *)

AllZero(result) ==
    \A i \in DOMAIN result : result[i].totalWage = Zero /\ result[i].breakdown = EmptyDict

\* C10 as claimed: over an empty labour-record collection GET /wages and
\* GET /monthly-wages answer with an empty or all-zero result, with or
\* without a price document.
C10_EmptyNeverFails ==
    labour_records_collection = <<>> =>
        /\ resp.op = "get_wages" => (resp.status = 200 /\ resp.body = <<>>)
        /\ resp.op = "get_monthly_wages" => (resp.status = 200 /\ AllZero(resp.body.result))

\* C10 amended: over an empty labour-record collection GET /monthly-wages
\* answers with an all-zero entry per roster member, with or without a price
\* document; GET /wages answers with an empty list when a price document
\* exists and with 404 when none exists.
C10_EmptyAggregation ==
    labour_records_collection = <<>> =>
        /\ resp.op = "get_wages" =>
              IF HasPrices THEN resp.status = 200 /\ resp.body = <<>>
              ELSE resp.status = 404
        /\ resp.op = "get_monthly_wages" =>
              /\ resp.status = 200
              /\ AllZero(resp.body.result)
              /\ Len(resp.body.result) = Len(staff_collection)

\* /monthly-wages has answered for a roster without records or prices.
C10_Witness ==
    /\ labour_records_collection = <<>>
    /\ ~HasPrices
    /\ resp.op = "get_monthly_wages"
    /\ resp.body.result # <<>>

-----------------------------------------------------------------------------
(* C11 *)

\* C11: a create-labours request that leaves amount or memberShare unset while
\* the price collection is empty is answered 404 and leaves the labour-record
\* collection as it was.
C11_ConfigurationMissing ==
    [][\A record \in AllocBodies :
          ( /\ record.fields_set # {"amount", "memberShare"}
            /\ price_settings_collection = <<>>
            /\ create_labour_record(record) )
          => ( /\ resp'.op = "create_labour_record"
               /\ resp'.status = 404
               /\ labour_records_collection' = labour_records_collection )]_vars

\* create-labours has just answered 404 and no record is stored.
C11_Witness ==
    /\ resp.op = "create_labour_record"
    /\ resp.status = 404
    /\ price_settings_collection = <<>>
    /\ labour_records_collection = <<>>

-----------------------------------------------------------------------------
(* C17 *)

\* C17: create_invoice stores the new invoice, and returns it, with status
\* "in progress", whatever status the request carried.
C17_CreatedInProgress ==
    [][resp'.op = "create_invoice" =>
          /\ resp'.status = 200
          /\ resp'.body.status = "in progress"
          /\ Len(invoices_collection') = Len(invoices_collection) + 1
          /\ invoices_collection'[Len(invoices_collection')].oid = resp'.body.id
          /\ invoices_collection'[Len(invoices_collection')].status = "in progress"]_vars

\* The request that claimed status "completed" has just been stored.
C17_Witness ==
    /\ resp.op = "create_invoice"
    /\ resp.body.customer.name = "Ben"
    /\ \E i \in DOMAIN invoices_collection :
          /\ invoices_collection[i].oid = resp.body.id
          /\ invoices_collection[i].status = "in progress"

-----------------------------------------------------------------------------
(* C18 *)

\* C18 as claimed: a stored invoice whose status is "completed" does not have
\* status "in progress" or "stopped" after any further request.
C18_StatusMovesForward ==
    [][\A i \in DOMAIN invoices_collection, j \in DOMAIN invoices_collection' :
          ( /\ invoices_collection[i].status = "completed"
            /\ invoices_collection'[j].oid = invoices_collection[i].oid )
          => invoices_collection'[j].status \notin {"in progress", "stopped"}]_vars

-----------------------------------------------------------------------------
(* C19 *)

\* C19 as claimed: every stored invoice has a status among "in progress",
\* "stopped" and "completed", so the totals of get-invoices/open and
\* get-invoices/completed add up to the number of stored invoices.
C19_StatusDomain ==
    /\ \A i \in DOMAIN invoices_collection :
          invoices_collection[i].status \in {"in progress", "stopped", "completed"}
    /\ Len(SelectSeq(invoices_collection, OpenQuery))
         + Len(SelectSeq(invoices_collection, CompletedQuery)) = Len(invoices_collection)

-----------------------------------------------------------------------------
(* Vocabulary of the statistics properties *)

CalendarLabels ==
    <<"Jan", "Feb", "Mar", "Apr", "May", "Jun", "Jul", "Aug", "Sep", "Oct", "Nov", "Dec">>

\* The document is dated in month k of the year: its date reads YYYY-MM-..
DatedIn(doc, year, k) == SubSeq(doc.date, 1, 8) = Pad4(year) \o "-" \o Pad2(k) \o "-"

\* Sum of a field over the documents at a set of positions
RECURSIVE SumAt(_, _, _)
SumAt(docs, positions, field) ==
    IF positions = {} THEN Zero
    ELSE LET i == CHOOSE i \in positions : TRUE
         IN  RAdd(docs[i][field], SumAt(docs, positions \ {i}, field))

\* Sum of a field over the documents of month k of the year
MonthSum(docs, year, k, field) ==
    SumAt(docs, {i \in DOMAIN docs : DatedIn(docs[i], year, k)}, field)

CompletedInvoices == SelectSeq(invoices_collection, LAMBDA d : d.status = "completed")

Answered(op) == resp.op = op /\ resp.status = 200

-----------------------------------------------------------------------------
(* C12 *)

\* C12: monthly-kg, monthly-sales, monthly-process-sales and
\* recycler-monthly-comparison return the twelve labels Jan..Dec in calendar
\* order with one value per label; each value of monthly-kg is the sum of kgIn
\* over the invoices of that month of the current year, each value of
\* monthly-sales the sum of amount over the sales of that month, each value of
\* monthly-process-sales the sum of amount over the completed invoices of that
\* month, and 0 when the month has none.
C12_MonthCompleteness ==
    /\ Answered("get_monthly_invoice_kg") =>
          /\ resp.body.labels = CalendarLabels
          /\ resp.body.kgCounts =
                [k \in 1..12 |-> MonthSum(invoices_collection, resp.body.year, k, "kgIn")]
    /\ Answered("get_monthly_sales") =>
          /\ resp.body.labels = CalendarLabels
          /\ resp.body.salesAmounts =
                [k \in 1..12 |-> MonthSum(sales_collection, resp.body.year, k, "amount")]
    /\ Answered("get_monthly_process_sales") =>
          /\ resp.body.labels = CalendarLabels
          /\ resp.body.salesAmounts =
                [k \in 1..12 |-> MonthSum(CompletedInvoices, resp.body.year, k, "amount")]
    /\ Answered("get_recycler_monthly_comparison") =>
          /\ resp.body.labels = CalendarLabels
          /\ DOMAIN resp.body.recyclerA = 1..12
          /\ DOMAIN resp.body.recyclerB = 1..12
    /\ resp.op \in {"get_monthly_invoice_kg", "get_monthly_sales", "get_monthly_process_sales",
                    "get_recycler_monthly_comparison"} => resp.status = 200

\* monthly-kg has answered for a year with invoices in January and none in
\* February.
C12_Witness ==
    /\ Answered("get_monthly_invoice_kg")
    /\ resp.body.kgCounts[1] # Zero
    /\ resp.body.kgCounts[2] = Zero
    /\ \E i \in DOMAIN invoices_collection :
          ~RegexYear(invoices_collection[i].date, StrftimeYear(resp.body.year))

-----------------------------------------------------------------------------
(* C13 *)

\* The codes each label of the response stands for
LabelCodes ==
    << {"R"}, {"C"}, {"B"}, {"R", "C"}, {"R", "B"}, {"C", "B"}, {"R", "C", "B"} >>

\* C13: process-type-count answers the labels R, C, B, R-C, R-B, C-B, R-C-B in
\* that order, and the count of a label is the number of completed invoices
\* whose processType holds exactly the codes of the label, in any order and
\* however often repeated; invoices that are not completed are not counted.
C13_ProcessTypeCanonical ==
    Answered("get_process_type_count") =>
        /\ resp.body.labels = <<"R", "C", "B", "R-C", "R-B", "C-B", "R-C-B">>
        /\ resp.body.counts =
              [k \in 1..7 |->
                  Cardinality({i \in DOMAIN invoices_collection :
                                  /\ invoices_collection[i].status = "completed"
                                  /\ Range(invoices_collection[i].processType) = LabelCodes[k]})]

\* The example of the specification: the completed invoices [R], [C,R] and
\* [R,C] are counted R:1 and R-C:2.
C13_Witness ==
    /\ Answered("get_process_type_count")
    /\ [i \in DOMAIN invoices_collection |-> invoices_collection[i].processType]
          = << <<"R">>, <<"C", "R">>, <<"R", "C">> >>
    /\ resp.body.counts = <<1, 0, 0, 2, 0, 0, 0>>

-----------------------------------------------------------------------------
(* C14 *)

\* The invoice is dated in month k of some year
DatedInMonth(doc, k) == \E year \in Years : DatedIn(doc, year, k)

\* C14 as claimed: recycler-monthly-comparison adds the kgIn of an invoice to
\* recyclerA of its month when its recycler is "a" or "A", and to recyclerB
\* when it is "b" or "B".
C14_RecyclerAnyCase ==
    Answered("get_recycler_monthly_comparison") =>
        \A k \in 1..12 :
            /\ resp.body.recyclerA[k] =
                  SumAt(invoices_collection,
                        {i \in DOMAIN invoices_collection :
                            /\ invoices_collection[i].recycler \in {"a", "A"}
                            /\ DatedInMonth(invoices_collection[i], k)}, "kgIn")
            /\ resp.body.recyclerB[k] =
                  SumAt(invoices_collection,
                        {i \in DOMAIN invoices_collection :
                            /\ invoices_collection[i].recycler \in {"b", "B"}
                            /\ DatedInMonth(invoices_collection[i], k)}, "kgIn")

-----------------------------------------------------------------------------
(* C15 *)

\* C15 as claimed: in GET /stats/all the count and amount of
\* total_process_sales and total_kg are those of the completed invoices.
C15_OnlyCompletedCounted ==
    Answered("get_stats") =>
        /\ resp.body.total_process_sales.count = Len(CompletedInvoices)
        /\ resp.body.total_process_sales.amount = SumField(CompletedInvoices, "amount")
        /\ resp.body.total_kg = SumField(CompletedInvoices, "kgIn")

-----------------------------------------------------------------------------
(* C16 *)

\* Names of the customers of the completed invoices
CompletedNames == {CompletedInvoices[i].customer.name : i \in DOMAIN CompletedInvoices}

\* Sum of amount over the completed invoices of a customer name
CompletedTotal(name) ==
    SumAt(CompletedInvoices,
          {i \in DOMAIN CompletedInvoices : CompletedInvoices[i].customer.name = name}, "amount")

\* C16: top-customers returns the five largest customers of the completed
\* invoices, all of them when there are fewer: distinct names, each with the
\* sum of amount over its completed invoices, in non-increasing order of that
\* sum, and no name left out has a larger sum than a name returned.
C16_TopCustomers ==
    Answered("get_top_customers") =>
        LET labels == resp.body.labels
            sums == resp.body.salesAmounts
        IN  /\ Len(labels) <= 5
            /\ Len(labels) = (IF Cardinality(CompletedNames) < 5
                              THEN Cardinality(CompletedNames) ELSE 5)
            /\ DOMAIN sums = DOMAIN labels
            /\ \A a, b \in DOMAIN labels : a # b => labels[a] # labels[b]
            /\ \A a \in DOMAIN labels :
                  labels[a] \in CompletedNames /\ sums[a] = CompletedTotal(labels[a])
            /\ \A a, b \in DOMAIN labels : a < b => RLeq(sums[b], sums[a])
            /\ \A name \in CompletedNames \ Range(labels) :
                  \A a \in DOMAIN labels : RLeq(CompletedTotal(name), sums[a])

\* top-customers has returned five of six customers; one of the invoices
\* stored is not completed.
C16_Witness ==
    /\ Answered("get_top_customers")
    /\ Len(resp.body.labels) = 5
    /\ Cardinality(CompletedNames) = 6
    /\ Len(CompletedInvoices) < Len(invoices_collection)

-----------------------------------------------------------------------------
(* C20 *)

\* C20 as claimed: under any interleaving of putprices and getprices requests
\* the price collection holds at most one document; a successful putprices
\* leaves its settings in that document, getprices returns the document
\* unchanged, and with no document getprices returns all-zero prices and
\* creates none.
C20_PriceTableSingleton ==
    /\ [](Len(price_settings_collection) <= 1)
    /\ [][(resp'.op = "update_price_settings" /\ resp'.status = 200) =>
             price_settings_collection' = <<resp'.body>>]_vars
    /\ [][resp'.op = "get_price_settings" =>
             /\ price_settings_collection' = price_settings_collection
             /\ resp'.body = IF price_settings_collection = <<>>
                             THEN [company_prices |-> [recyclingKg |-> Zero, blendingKg |-> Zero,
                                                       crushingKg |-> Zero],
                                   labour_prices |-> [recycling |-> Zero, blending |-> Zero,
                                                      crushingWaste |-> Zero,
                                                      crushingSack |-> Zero]]
                             ELSE price_settings_collection[1]]_vars

-----------------------------------------------------------------------------
(* C21 *)

\* C21: an update_staff request leaves every stored labour record as it was,
\* the names in the embedded staff entries included.
C21_SnapshotsAreCopies ==
    [][resp'.op = "update_staff" =>
          labour_records_collection' = labour_records_collection]_vars

\* A staff member has just been renamed and a stored record still names it
\* as before.
C21_Witness ==
    /\ resp.op = "update_staff"
    /\ resp.status = 200
    /\ \E i \in DOMAIN staff_collection, j \in DOMAIN labour_records_collection :
          /\ staff_collection[i].name = "Anne"
          /\ \E k \in DOMAIN labour_records_collection[j].staffs :
                /\ labour_records_collection[j].staffs[k].id = staff_collection[i].oid
                /\ labour_records_collection[j].staffs[k].name = "Ann"

-----------------------------------------------------------------------------
(* C22 *)

\* The orders a cursor may deliver the documents of a collection in
Reorderings(docs) ==
    { [k \in DOMAIN docs |-> docs[p[k]]] :
        p \in { q \in [DOMAIN docs -> DOMAIN docs] :
                  \A a, b \in DOMAIN docs : a # b => q[a] # q[b] } }

\* C22 as claimed: read in any order, the labour records give GET /wages and
\* GET /monthly-wages the same per-staff entries: id, name and every total.
C22_OrderIndependence ==
    \A permuted \in Reorderings(labour_records_collection) :
        /\ HasPrices =>
              Range(Wages(permuted, CurrentPrices))
                 = Range(Wages(labour_records_collection, CurrentPrices))
        /\ \A now \in Nows :
              Range(MonthlyWages(permuted, staff_collection, now))
                 = Range(MonthlyWages(labour_records_collection, staff_collection, now))

-----------------------------------------------------------------------------
(* C23 *)

\* C23 as claimed: a request without X-API-KEY, or with a key of no company
\* and no staff member, is answered 403 and reaches no handler: the step that
\* serves it writes no collection.
C23_ApiKeyGate ==
    [][(request' = request /\ api_key_dependency(request).status = 403)
          => /\ resp'.status = 403
             /\ UNCHANGED <<price_settings_collection, staff_collection,
                            invoices_collection, labour_records_collection>>]_vars

-----------------------------------------------------------------------------
(* C24 *)

\* C24 as claimed: however concurrent create_staff requests interleave, no two
\* stored staff documents have the same staff_id.
C24_StaffIdsUnique ==
    \A i, j \in DOMAIN staff_collection :
        i # j => staff_collection[i].staff_id # staff_collection[j].staff_id

-----------------------------------------------------------------------------
(* C25 *)

\* Sum of kgIn over the completed invoices of a recycler dated in month k
CompletedKg(recycler, k) ==
    SumAt(invoices_collection,
          {i \in DOMAIN invoices_collection :
              /\ invoices_collection[i].status = "completed"
              /\ invoices_collection[i].recycler = recycler
              /\ DatedInMonth(invoices_collection[i], k)}, "kgIn")

\* C25 as claimed: recycler-monthly-comparison sums kgIn over the completed
\* invoices of recycler "a" and of recycler "b" only; an invoice in progress
\* or stopped adds nothing to recyclerA or recyclerB.
C25_RecyclerOnlyCompleted ==
    Answered("get_recycler_monthly_comparison") =>
        \A k \in 1..12 :
            /\ resp.body.recyclerA[k] = CompletedKg("a", k)
            /\ resp.body.recyclerB[k] = CompletedKg("b", k)

-----------------------------------------------------------------------------
(* C26 *)

\* The ids of the staff documents
RosterIds == {StaffKey(staff_collection[k]) : k \in DOMAIN staff_collection}

\* The conditions of the agreement: a price table that every stored record was
\* priced with by create_labour_record, every record dated in the month of
\* now, with exactly one keyword in its labour type, and naming only roster
\* ids, each once.
Agreeable(now) ==
    /\ HasPrices
    /\ \A r \in Stored :
          /\ InWindow(r.date, now)
          /\ priced_with[r.oid] = <<CurrentPrices>>
          /\ Cardinality(Matches(r.labourType)) = 1
          /\ \A j \in DOMAIN r.staffs :
                /\ r.staffs[j].id \in RosterIds
                /\ Mentions(r, r.staffs[j].id) = 1

\* C26: under these conditions GET /wages and GET /monthly-wages agree: every
\* /wages entry has a /monthly-wages entry of its id whose totalWage is its
\* totalAmountDue, and a /monthly-wages entry without a /wages entry has
\* totalWage 0 (exact arithmetic).
C26_WageViewsAgree ==
    \A now \in Nows :
        Agreeable(now) =>
            LET wages == WagesNow
                monthly == MonthlyNow[now]
            IN  /\ \A i \in DOMAIN wages :
                      \E k \in DOMAIN monthly :
                          /\ monthly[k].id = wages[i].id
                          /\ monthly[k].totalWage = wages[i].totalAmountDue
                /\ \A k \in DOMAIN monthly :
                      \/ \E i \in DOMAIN wages : wages[i].id = monthly[k].id
                      \/ monthly[k].totalWage = Zero

\* /wages has answered for two November records of one and of two staff
\* entries, all of the roster, priced with the table in force.
C26_Witness ==
    /\ resp.op = "get_wages"
    /\ resp.status = 200
    /\ Agreeable(<<2026, 11>>)
    /\ Len(labour_records_collection) = 2
    /\ \E i, j \in DOMAIN resp.body :
          /\ resp.body[i].totalAmountDue # Zero
          /\ resp.body[j].totalAmountDue # Zero
          /\ resp.body[i].totalAmountDue # resp.body[j].totalAmountDue

-----------------------------------------------------------------------------
(* C27 *)

\* The ids that the staff lists of the stored records carry
NamedIds ==
    UNION { {StaffKey(r.staffs[j]) : j \in DOMAIN r.staffs} : r \in Stored } \ {Absent}

\* C27: the ids of the /monthly-wages output are exactly the ids of the staff
\* documents, so the id of a deleted staff member is not in it, whatever the
\* stored records still accrue to it; /wages lists every id that the stored
\* records name.
C27_RosterDecidesMonthly ==
    /\ resp.op = "get_monthly_wages" =>
          {resp.body.result[i].id : i \in DOMAIN resp.body.result} = RosterIds
    /\ (resp.op = "get_wages" /\ resp.status = 200) =>
          {resp.body[i].id : i \in DOMAIN resp.body} = NamedIds

\* /monthly-wages has answered after the staff member s1 was deleted: a record
\* of the month still names s1 with a memberShare, the output has no s1, and
\* /wages lists s1.
C27_Witness ==
    /\ resp.op = "get_monthly_wages"
    /\ next_staff_oid >= 1
    /\ "s1" \notin RosterIds
    /\ \E r \in Stored :
          /\ InWindow(r.date, resp.body.now)
          /\ r.memberShare # Zero
          /\ \E j \in DOMAIN r.staffs : r.staffs[j].id = "s1"
    /\ \A i \in DOMAIN resp.body.result : resp.body.result[i].id # "s1"
    /\ HasPrices
    /\ \E i \in DOMAIN WagesNow : WagesNow[i].id = "s1"

-----------------------------------------------------------------------------
(* C28 *)

\* Sum of the values of a breakdown map
RECURSIVE SumValues(_)
SumValues(dict) ==
    IF DOMAIN dict = {} THEN Zero
    ELSE LET k == CHOOSE k \in DOMAIN dict : TRUE
         IN  RAdd(dict[k], SumValues([x \in DOMAIN dict \ {k} |-> dict[x]]))

\* The stored records dated in the month of now that name the staff id
NamingInWindow(staff_id, now) ==
    {r \in Stored : /\ InWindow(r.date, now)
                    /\ \E j \in DOMAIN r.staffs : StaffKey(r.staffs[j]) = staff_id}

\* C28: in every entry of /monthly-wages the values of breakdown sum to
\* totalWage, and every key of breakdown is the trimmed, lower-cased
\* labourType of a record of the month that names the id of the entry.
C28_BreakdownAddsUp ==
    resp.op = "get_monthly_wages" =>
        \A i \in DOMAIN resp.body.result :
            LET entry == resp.body.result[i]
            IN  /\ SumValues(entry.breakdown) = entry.totalWage
                /\ DOMAIN entry.breakdown \subseteq
                      {Lower(Strip(r.labourType)) : r \in NamingInWindow(entry.id, resp.body.now)}

\* /monthly-wages has answered with an entry whose one breakdown key,
\* "labour recycling", sums the shares of two records of the month, stored as
\* "Labour Recycling " and "labour recycling".
C28_Witness ==
    /\ resp.op = "get_monthly_wages"
    /\ \E i \in DOMAIN resp.body.result :
          LET entry == resp.body.result[i]
              named == NamingInWindow(entry.id, resp.body.now)
          IN  /\ DOMAIN entry.breakdown = {"labour recycling"}
              /\ Cardinality(named) = 2
              /\ Cardinality({r.labourType : r \in named}) = 2
              /\ \A r \in named : r.memberShare # Zero
              /\ entry.totalWage # Zero

-----------------------------------------------------------------------------
(* C29 *)

\* C29 as claimed: a putprices request that leaves its settings stored
\* succeeds; sent again with the same settings it returns them again and
\* leaves the stored document as it was.
C29_RepeatedPutSucceeds ==
    [][\A settings \in PriceSettings :
          (update_price_settings(settings) /\ price_settings_collection'[1] = settings) =>
              /\ resp' = Response("update_price_settings", 200, settings)
              /\ (price_settings_collection # <<>> /\ price_settings_collection[1] = settings) =>
                     price_settings_collection' = price_settings_collection]_vars

-----------------------------------------------------------------------------
(* C30 *)

\* An invoice with the id is stored
InvoiceStored(invoice_id) ==
    \E i \in DOMAIN invoices_collection : invoices_collection[i].oid = invoice_id

\* C30 as claimed: update_invoice answers 404 only when no invoice has the id;
\* for a stored invoice it returns the invoice as stored after the update,
\* also when the update changes nothing, and a 404 leaves the collection
\* unchanged.
C30_NotFoundOnlyWhenAbsent ==
    [][\A invoice_id \in InvoiceIds, invoice \in UpdateBodies :
          update_invoice(invoice_id, invoice) =>
              /\ InvoiceStored(invoice_id) =>
                    /\ resp'.status = 200
                    /\ \E i \in DOMAIN invoices_collection' :
                          /\ invoices_collection'[i].oid = invoice_id
                          /\ resp'.body = invoice_helper(invoices_collection'[i])
              /\ resp'.status = 404 =>
                    /\ ~InvoiceStored(invoice_id)
                    /\ invoices_collection' = invoices_collection]_vars

====
